---- MODULE Spec2Model ----
(***************************************************************************)
(* A model of the document search, caching and aggregation engine of       *)
(* ratsinfo_crawler/Ratsinfo.py.                                           *)
(*                                                                         *)
(* Strings are sequences of characters, a character being a one-letter     *)
(* string; the German letters outside ASCII are written as the tokens      *)
(* "AE" "OE" "UE" "ae" "oe" "ue" "sz", each standing for ONE character.    *)
(* A DataFrame is a sequence of rows, a row a record of its columns.       *)
(***************************************************************************)
EXTENDS Naturals, Integers, Sequences, FiniteSets, TLC

VARIABLES
  disk,         \* the file system: for each path, whether the file exists, its rows, its mtime
  _data_cache,  \* Ratsinfo._data_cache: for each path an entry {data, mtime} or none
  heap,         \* the DataFrame objects alive in the process, by address
  held,         \* for each caller, the address of the DataFrame it got from its last load (0: none)
  call,         \* the engine call made last: its name and arguments
  result,       \* what that call returned
  loader,       \* for each thread inside _load_data_cached: its position and locals
  snapshot,     \* for each path, the table and mtime returned by the call that built its cache entry
  pool          \* the thread pool of find_words_frequency: the tables, the futures and what was collected

vars == <<disk, _data_cache, heap, held, call, result, loader, snapshot, pool>>

----------------------------------------------------------------------------
(* Bounds of the model *)

MaxAddr == 6     \* DataFrame objects alive at once
MaxRows == 2     \* rows of a source file
MaxTerms == 2    \* terms of a query
MaxMtime == 2    \* modification times a file goes through
MaxSliceRows == 3  \* rows of a table handed to _slice_by_date on its own

----------------------------------------------------------------------------
(* Strings *)

UpperChars == <<"A","B","C","D","E","F","G","H","I","J","K","L","M","N","O","P","Q","R","S","T","U","V","W","X","Y","Z","AE","OE","UE">>
LowerChars == <<"a","b","c","d","e","f","g","h","i","j","k","l","m","n","o","p","q","r","s","t","u","v","w","x","y","z","ae","oe","ue">>

LowerOf == [c \in {UpperChars[i] : i \in 1..Len(UpperChars)} |->
              LowerChars[CHOOSE i \in 1..Len(UpperChars) : UpperChars[i] = c]]

\* str.lower() on one character
CharLower(c) == IF c \in DOMAIN LowerOf THEN LowerOf[c] ELSE c

\* str.lower()
StrLower(s) == [i \in 1..Len(s) |-> CharLower(s[i])]

\* str.strip() == "": the string is empty or only whitespace
StripIsEmpty(s) == \A i \in 1..Len(s) : s[i] = " "

\* the elements of a list, as a set
Range(s) == {s[i] : i \in 1..Len(s)}

\* the characters in the order of their code points
CharOrder ==
  <<" ", "(", ")", ",", "-", ".", "0", "1", "2", "3", "4", "5", "6", "7", "8", "9",
    "A","B","C","D","E","F","G","H","I","J","K","L","M","N","O","P","Q","R","S","T","U","V","W","X","Y","Z",
    "a","b","c","d","e","f","g","h","i","j","k","l","m","n","o","p","q","r","s","t","u","v","w","x","y","z",
    "AE", "OE", "UE", "sz", "ae", "oe", "ue">>
CodeOf == [c \in {CharOrder[i] : i \in 1..Len(CharOrder)} |-> CHOOSE i \in 1..Len(CharOrder) : CharOrder[i] = c]

RECURSIVE StrLess(_, _)
\* a < b on strings
StrLess(a, b) ==
  IF b = <<>> THEN FALSE
  ELSE IF a = <<>> THEN TRUE
  ELSE IF a[1] # b[1] THEN CodeOf[a[1]] < CodeOf[b[1]]
  ELSE StrLess(Tail(a), Tail(b))

RECURSIVE StrStrip(_)
\* str.strip()
StrStrip(s) ==
  IF s = <<>> THEN s
  ELSE IF s[1] = " " THEN StrStrip(Tail(s))
  ELSE IF s[Len(s)] = " " THEN StrStrip(SubSeq(s, 1, Len(s) - 1))
  ELSE s

RECURSIVE StrSplit(_, _)
\* str.split(sep) for a separator of one character
StrSplit(s, sep) ==
  IF \A i \in 1..Len(s) : s[i] # sep THEN <<s>>
  ELSE LET k == CHOOSE i \in 1..Len(s) : s[i] = sep /\ \A j \in 1..(i - 1) : s[j] # sep
       IN  <<SubSeq(s, 1, k - 1)>> \o StrSplit(SubSeq(s, k + 1, Len(s)), sep)

RECURSIVE SetToSeq(_)
\* list(a_set): some order of the elements
SetToSeq(S) ==
  IF S = {} THEN <<>>
  ELSE LET x == CHOOSE y \in S : TRUE IN <<x>> \o SetToSeq(S \ {x})

----------------------------------------------------------------------------
(* The theme lexicon *)

THEME_MAP ==
  <<
    [theme |-> <<"W","o","h","n","e","n">>,   \* Wohnen
     phrases |-> <<
       <<"W","o","h","n","u","n","g">>,   \* Wohnung
       <<"M","i","e","t","e">>,   \* Miete
       <<"M","i","e","t","s","p","i","e","g","e","l">>,   \* Mietspiegel
       <<"W","o","h","n","r","a","u","m">>,   \* Wohnraum
       <<"Z","i","m","m","e","r">>,   \* Zimmer
       <<"V","e","r","m","i","e","t","u","n","g">>,   \* Vermietung
       <<"U","n","t","e","r","m","i","e","t","e">>   \* Untermiete
     >>],
    [theme |-> <<"M","o","b","i","l","i","t","a","e","t">>,   \* Mobilitaet
     phrases |-> <<
       <<"OE","P","N","V">>,   \* OEPNV
       <<"B","u","s">>,   \* Bus
       <<"T","r","a","m">>,   \* Tram
       <<"S","t","r","a","sz","e","n","b","a","h","n">>,   \* Straszenbahn
       <<"U","-","B","a","h","n">>,   \* U-Bahn
       <<"S","-","B","a","h","n">>,   \* S-Bahn
       <<"F","a","h","r","r","a","d">>,   \* Fahrrad
       <<"R","a","d","w","e","g">>,   \* Radweg
       <<"P","a","r","k","p","l","a","t","z">>   \* Parkplatz
     >>],
    [theme |-> <<"B","i","l","d","u","n","g">>,   \* Bildung
     phrases |-> <<
       <<"S","c","h","u","l","e">>,   \* Schule
       <<"K","i","t","a">>,   \* Kita
       <<"K","i","n","d","e","r","g","a","r","t","e","n">>,   \* Kindergarten
       <<"U","n","i","v","e","r","s","i","t","ae","t">>,   \* Universitaet
       <<"H","o","c","h","s","c","h","u","l","e">>,   \* Hochschule
       <<"A","u","s","b","i","l","d","u","n","g">>   \* Ausbildung
     >>],
    [theme |-> <<"U","m","w","e","l","t">>,   \* Umwelt
     phrases |-> <<
       <<"K","l","i","m","a","s","c","h","u","t","z">>,   \* Klimaschutz
       <<"C","O","2">>,   \* CO2
       <<"E","m","i","s","s","i","o","n","e","n">>,   \* Emissionen
       <<"N","a","c","h","h","a","l","t","i","g","k","e","i","t">>,   \* Nachhaltigkeit
       <<"E","n","e","r","g","i","e","w","e","n","d","e">>,   \* Energiewende
       <<"S","o","l","a","r","a","n","l","a","g","e","n">>,   \* Solaranlagen
       <<"G","r","ue","n","f","l","ae","c","h","e","n">>,   \* Gruenflaechen
       <<"P","a","r","k","s">>,   \* Parks
       <<"B","ae","u","m","e">>,   \* Baeume
       <<"B","e","g","r","ue","n","u","n","g">>,   \* Begruenung
       <<"A","b","f","a","l","l","w","i","r","t","s","c","h","a","f","t">>,   \* Abfallwirtschaft
       <<"R","e","c","y","c","l","i","n","g">>   \* Recycling
     >>],
    [theme |-> <<"S","o","z","i","a","l","e","s">>,   \* Soziales
     phrases |-> <<
       <<"S","o","z","i","a","l","h","i","l","f","e">>,   \* Sozialhilfe
       <<"G","r","u","n","d","s","i","c","h","e","r","u","n","g">>,   \* Grundsicherung
       <<"A","r","m","u","t">>,   \* Armut
       <<"O","b","d","a","c","h","l","o","s","i","g","k","e","i","t">>,   \* Obdachlosigkeit
       <<"M","i","g","r","a","t","i","o","n">>,   \* Migration
       <<"I","n","t","e","g","r","a","t","i","o","n">>,   \* Integration
       <<"F","l","ue","c","h","t","l","i","n","g","e">>,   \* Fluechtlinge
       <<"C","h","a","n","c","e","n","g","l","e","i","c","h","h","e","i","t">>,   \* Chancengleichheit
       <<"F","a","m","i","l","i","e","n">>   \* Familien
     >>],
    [theme |-> <<"K","u","l","t","u","r">>,   \* Kultur
     phrases |-> <<
       <<"T","h","e","a","t","e","r">>,   \* Theater
       <<"M","u","s","e","e","n">>,   \* Museen
       <<"K","u","n","s","t","f","oe","r","d","e","r","u","n","g">>,   \* Kunstfoerderung
       <<"K","u","l","t","u","r","z","e","n","t","r","e","n">>,   \* Kulturzentren
       <<"B","i","b","l","i","o","t","h","e","k","e","n">>,   \* Bibliotheken
       <<"K","u","l","t","u","r","e","l","l","e"," ","V","i","e","l","f","a","l","t">>,   \* Kulturelle Vielfalt
       <<"D","e","n","k","m","a","l","s","c","h","u","t","z">>,   \* Denkmalschutz
       <<"A","r","c","h","i","t","e","k","t","u","r">>   \* Architektur
     >>],
    [theme |-> <<"G","e","s","u","n","d","h","e","i","t">>,   \* Gesundheit
     phrases |-> <<
       <<"K","r","a","n","k","e","n","h","ae","u","s","e","r">>,   \* Krankenhaeuser
       <<"AE","r","z","t","e">>,   \* AErzte
       <<"G","e","s","u","n","d","h","e","i","t","s","v","e","r","s","o","r","g","u","n","g">>,   \* Gesundheitsversorgung
       <<"P","s","y","c","h","i","a","t","r","i","e">>,   \* Psychiatrie
       <<"P","f","l","e","g","e">>,   \* Pflege
       <<"A","l","t","e","n","b","e","t","r","e","u","u","n","g">>,   \* Altenbetreuung
       <<"B","e","h","i","n","d","e","r","t","e","n","b","e","t","r","e","u","u","n","g">>,   \* Behindertenbetreuung
       <<"P","a","n","d","e","m","i","e">>   \* Pandemie
     >>],
    [theme |-> <<"W","i","r","t","s","c","h","a","f","t">>,   \* Wirtschaft
     phrases |-> <<
       <<"A","r","b","e","i","t","s","m","a","r","k","t">>,   \* Arbeitsmarkt
       <<"A","r","b","e","i","t","s","p","l","ae","t","z","e">>,   \* Arbeitsplaetze
       <<"U","n","t","e","r","n","e","h","m","e","n","s","f","oe","r","d","e","r","u","n","g">>,   \* Unternehmensfoerderung
       <<"G","e","w","e","r","b","e","b","e","t","r","i","e","b","e">>,   \* Gewerbebetriebe
       <<"H","a","n","d","w","e","r","k">>,   \* Handwerk
       <<"S","t","a","r","t","u","p","s">>,   \* Startups
       <<"F","a","c","h","k","r","ae","f","t","e","m","a","n","g","e","l">>   \* Fachkraeftemangel
     >>],
    [theme |-> <<"S","i","c","h","e","r","h","e","i","t">>,   \* Sicherheit
     phrases |-> <<
       <<"P","o","l","i","z","e","i">>,   \* Polizei
       <<"F","e","u","e","r","w","e","h","r">>,   \* Feuerwehr
       <<"K","r","i","m","i","n","a","l","i","t","ae","t">>,   \* Kriminalitaet
       <<"O","r","d","n","u","n","g">>,   \* Ordnung
       <<"S","a","u","b","e","r","k","e","i","t">>,   \* Sauberkeit
       <<"V","e","r","k","e","h","r","s","s","i","c","h","e","r","h","e","i","t">>,   \* Verkehrssicherheit
       <<"P","r","ae","v","e","n","t","i","o","n">>   \* Praevention
     >>],
    [theme |-> <<"S","p","o","r","t">>,   \* Sport
     phrases |-> <<
       <<"S","p","o","r","t","a","n","l","a","g","e","n">>,   \* Sportanlagen
       <<"F","r","e","i","z","e","i","t","e","i","n","r","i","c","h","t","u","n","g","e","n">>,   \* Freizeiteinrichtungen
       <<"S","c","h","w","i","m","m","b","ae","d","e","r">>,   \* Schwimmbaeder
       <<"S","p","i","e","l","p","l","ae","t","z","e">>,   \* Spielplaetze
       <<"S","p","o","r","t","f","oe","r","d","e","r","u","n","g">>,   \* Sportfoerderung
       <<"J","u","g","e","n","d","a","n","g","e","b","o","t","e">>   \* Jugendangebote
     >>],
    [theme |-> <<"D","i","g","i","t","a","l","i","s","i","e","r","u","n","g">>,   \* Digitalisierung
     phrases |-> <<
       <<"B","r","e","i","t","b","a","n","d">>,   \* Breitband
       <<"G","l","a","s","f","a","s","e","r">>,   \* Glasfaser
       <<"5","G">>,   \* 5G
       <<"S","m","a","r","t"," ","C","i","t","y">>,   \* Smart City
       <<"D","i","g","i","t","a","l","i","s","i","e","r","u","n","g">>,   \* Digitalisierung
       <<"I","T","-","I","n","f","r","a","s","t","r","u","k","t","u","r">>,   \* IT-Infrastruktur
       <<"O","n","l","i","n","e","-","D","i","e","n","s","t","e">>   \* Online-Dienste
     >>],
    [theme |-> <<"V","e","r","s","o","r","g","u","n","g">>,   \* Versorgung
     phrases |-> <<
       <<"W","a","s","s","e","r">>,   \* Wasser
       <<"E","n","e","r","g","i","e","v","e","r","s","o","r","g","u","n","g">>,   \* Energieversorgung
       <<"T","i","e","r","s","c","h","u","t","z">>,   \* Tierschutz
       <<"K","i","n","d","e","r","r","e","c","h","t","e">>,   \* Kinderrechte
       <<"V","e","r","b","r","a","u","c","h","e","r","s","c","h","u","t","z">>   \* Verbraucherschutz
     >>]
  >>

\* theme.lower() and [p.lower() for p in phrases], for every entry of THEME_MAP
ThemeLowers ==
  [i \in 1..Len(THEME_MAP) |->
     [theme_lower |-> StrLower(THEME_MAP[i].theme),
      phrase_lowers |-> {StrLower(THEME_MAP[i].phrases[j]) : j \in 1..Len(THEME_MAP[i].phrases)}]]

\* a is a part of b (Python's `a in b` on two strings)
PartOf(a, b) == \E k \in 0..(Len(b) - Len(a)) : SubSeq(b, k + 1, k + Len(a)) = a

\* the comparison with the lexicon side left as written: `lower_word == theme or lower_word in phrases`
ThemeHit_LexiconNotLowered(lower_word, i) ==
  lower_word = THEME_MAP[i].theme \/ lower_word \in Range(THEME_MAP[i].phrases)

\* the comparison with `in` applied to each phrase instead of the list of phrases
ThemeHit_PartOfPhrase(lower_word, i) ==
  lower_word = ThemeLowers[i].theme_lower \/ \E p \in ThemeLowers[i].phrase_lowers : PartOf(lower_word, p)

\* `lower_word == theme_lower or lower_word in phrase_lowers` for entry i of THEME_MAP
ThemeHit(lower_word, i) ==
  lower_word = ThemeLowers[i].theme_lower \/ lower_word \in ThemeLowers[i].phrase_lowers

\* _expand_search_terms_with_themes(words) with the default theme_map: the set `expanded`
ExpandSearchTermsWithThemes(words) ==
  LET kept == {w \in Range(words) : w # <<>>}     \* `if not word: continue`
      lowered == {StrLower(w) : w \in kept}
      hits == {i \in 1..Len(THEME_MAP) : \E lw \in lowered : ThemeHit(lw, i)}
  IN  kept
        \cup UNION {Range(THEME_MAP[i].phrases) : i \in hits}
        \cup {THEME_MAP[i].theme : i \in hits}

----------------------------------------------------------------------------
(* Regular expressions.  The patterns of the model are literals, "." (any  *)
(* character), patterns with a "(" that is never closed, which re.compile  *)
(* rejects with re.error, and patterns with a repetition count "{n}" too   *)
(* large for the re module, which re.compile rejects with OverflowError.   *)

CountChar(s, c) == Cardinality({i \in 1..Len(s) : s[i] = c})

\* re.compile(word, re.IGNORECASE) raises re.error
ReCompileFails(word) == CountChar(word, "(") # CountChar(word, ")")

\* the largest repetition count of the re module, in digits
MAXREPEAT == <<"4","2","9","4","9","6","7","2","9","5">>

Digits == {"0", "1", "2", "3", "4", "5", "6", "7", "8", "9"}

\* the places i < j of a repetition count "{digits}" in the pattern
RepeatCounts(word) ==
  {ij \in (1..Len(word)) \X (1..Len(word)) :
     /\ ij[1] + 1 < ij[2]
     /\ word[ij[1]] = "{" /\ word[ij[2]] = "}"
     /\ \A k \in (ij[1] + 1)..(ij[2] - 1) : word[k] \in Digits}

\* re.compile(word, re.IGNORECASE) raises OverflowError ("the repetition number is too
\* large"), which is neither re.error nor TypeError
ReCompileOverflows(word) ==
  \E ij \in RepeatCounts(word) :
    LET n == SubSeq(word, ij[1] + 1, ij[2] - 1)
    IN  Len(n) > Len(MAXREPEAT) \/ (Len(n) = Len(MAXREPEAT) /\ ~StrLess(n, MAXREPEAT))

\* one pattern character against one text character, under re.IGNORECASE
CharMatches(pc, c) == pc = "." \/ CharLower(pc) = CharLower(c)

\* the places of `text` where the compiled pattern matches
MatchStarts(pattern, text) ==
  {i \in 0..(Len(text) - Len(pattern)) :
     \A k \in 1..Len(pattern) : CharMatches(pattern[k], text[i + k])}

\* Series.str.contains(pattern, na=False) on one cell: re.search finds a match
StrContains(text, pattern) == MatchStarts(pattern, text) # {}

----------------------------------------------------------------------------
(* Cells.  An empty CSV cell is read as NaN; str(NaN) is "nan".            *)

NaN == <<"<NaN>">>          \* the missing value of a text column

\* Series.astype(str) on one cell
AsTypeStr(cell) == IF cell = NaN THEN <<"n","a","n">> ELSE cell

(* A date cell is [k, v]: k = "text" with v = <<year, month, day>> as      *)
(* written in the file or the query, k = "ts" with v = <<day number>> once *)
(* parsed, k = "NaT" for the missing timestamp, k = "NaN" for an empty     *)
(* cell.                                                                   *)
NaT == [k |-> "NaT", v |-> <<>>]
EmptyCell == [k |-> "NaN", v |-> <<>>]
DateText(y, m, d) == [k |-> "text", v |-> <<y, m, d>>]
Timestamp(n) == [k |-> "ts", v |-> <<n>>]

IsLeap(y) == (y % 4 = 0 /\ y % 100 # 0) \/ y % 400 = 0
DaysInMonth(y, m) ==
  IF m = 2 THEN (IF IsLeap(y) THEN 29 ELSE 28)
  ELSE IF m \in {4, 6, 9, 11} THEN 30 ELSE 31

\* the text is a calendar date
Parses(c) ==
  /\ c.k = "text"
  /\ Len(c.v) = 3
  /\ c.v[2] \in 1..12
  /\ c.v[3] \in 1..DaysInMonth(c.v[1], c.v[2])

RECURSIVE DaysBeforeMonth(_, _)
DaysBeforeMonth(y, m) == IF m = 1 THEN 0 ELSE DaysBeforeMonth(y, m - 1) + DaysInMonth(y, m - 1)

\* days before 1 January of y in the proleptic Gregorian calendar (Timestamp.toordinal)
DaysBeforeYear(y) == 365 * (y - 1) + ((y - 1) \div 4) - ((y - 1) \div 100) + ((y - 1) \div 400)

\* pd.to_datetime(cell, errors="coerce"); parsing a parsed date gives it back
ToDatetimeCoerce(c) ==
  IF c.k = "ts" THEN c
  ELSE IF Parses(c) THEN Timestamp(DaysBeforeYear(c.v[1]) + DaysBeforeMonth(c.v[1], c.v[2]) + c.v[3])
  ELSE NaT

IsNaT(c) == c.k # "ts"
Day(c) == c.v[1]

\* a < b on timestamps; any comparison with NaT is False
TsLess(a, b) == ~IsNaT(a) /\ ~IsNaT(b) /\ Day(a) < Day(b)
TsLeq(a, b) == ~IsNaT(a) /\ ~IsNaT(b) /\ Day(a) <= Day(b)

\* the order sort_values and searchsorted use: NaT after every timestamp
SortsBefore(a, b) == ~IsNaT(a) /\ (IsNaT(b) \/ Day(a) < Day(b))

----------------------------------------------------------------------------
(* DataFrames *)

RECURSIVE InsertSorted(_, _)
\* insertion of r after the rows that do not sort after it
InsertSorted(sorted, r) ==
  IF sorted = <<>> THEN <<r>>
  ELSE IF SortsBefore(r.Gestellt_am, sorted[Len(sorted)].Gestellt_am)
       THEN Append(InsertSorted(SubSeq(sorted, 1, Len(sorted) - 1), r), sorted[Len(sorted)])
       ELSE Append(sorted, r)

RECURSIVE SortValues(_)
\* df.sort_values("Gestellt am").reset_index(drop=True): ascending, NaT last; the
\* sort of numpy is an insertion sort on tables this short, so ties keep their order
SortValues(df) ==
  IF df = <<>> THEN <<>>
  ELSE InsertSorted(SortValues(SubSeq(df, 1, Len(df) - 1)), df[Len(df)])

\* Series.is_monotonic_increasing of the date column: False as soon as one is NaT
IsMonotonicIncreasing(df) ==
  /\ \A i \in 1..Len(df) : ~IsNaT(df[i].Gestellt_am)
  /\ \A i \in 1..(Len(df) - 1) : Day(df[i].Gestellt_am) <= Day(df[i + 1].Gestellt_am)

\* dates.searchsorted(ts, side="left"): the rows before the first one >= ts
SearchSortedLeft(df, ts) ==
  Cardinality({i \in 1..Len(df) : SortsBefore(df[i].Gestellt_am, ts)})

\* the default side for the upper bound too
SearchSortedRight_SideLeft(df, ts) == SearchSortedLeft(df, ts)

\* dates.searchsorted(ts, side="right"): the rows before the first one > ts
SearchSortedRight(df, ts) ==
  Cardinality({i \in 1..Len(df) : ~SortsBefore(ts, df[i].Gestellt_am)})

\* concat without the drop_duplicates() that follows it
KeepAllRows(rows) == rows

\* DataFrame.drop_duplicates(): the first of each group of identical rows is kept
RECURSIVE DropDuplicateRows(_)
DropDuplicateRows(rows) ==
  IF rows = <<>> THEN <<>>
  ELSE LET init == DropDuplicateRows(SubSeq(rows, 1, Len(rows) - 1))
           last == rows[Len(rows)]
       IN  IF \E i \in 1..Len(init) : init[i] = last THEN init ELSE Append(init, last)

\* df[col] = value (one value for every row)
SetColumn(df, col, value) ==
  [columns |-> df.columns \cup {col},
   rows |-> [i \in 1..Len(df.rows) |->
               [c \in df.columns \cup {col} |-> IF c = col THEN value ELSE df.rows[i][c]]]]

\* df[col] = f(row)
ComputeColumn(df, col, F(_)) ==
  [columns |-> df.columns \cup {col},
   rows |-> [i \in 1..Len(df.rows) |->
               [c \in df.columns \cup {col} |-> IF c = col THEN F(df.rows[i]) ELSE df.rows[i][c]]]]

\* df[mask]
Where(df, Keep(_)) == [df EXCEPT !.rows = SelectSeq(@, Keep)]

EmptyFrame == [columns |-> {}, rows |-> <<>>]

----------------------------------------------------------------------------
(* The heap of DataFrame objects.  A DataFrame handed from one function to *)
(* another is an object: who holds its address can write to it.            *)

Addr == 1..MaxAddr
Dead == [live |-> FALSE, df |-> EmptyFrame]

\* the address a new object gets
NewAddr(hp) == CHOOSE a \in Addr : ~hp[a].live /\ \A b \in 1..(a - 1) : hp[b].live

\* a new object holding df
New(hp, df) == [heap |-> [hp EXCEPT ![NewAddr(hp)] = [live |-> TRUE, df |-> df]], addr |-> NewAddr(hp)]

\* what a buggy `return _data_cache[file]['data']` would hand out: the cached object itself
NoCopy(hp, a) == [heap |-> hp, addr |-> a]

\* DataFrame.copy(): a new object with the same content
DfCopy(hp, a) == New(hp, hp[a].df)

\* the objects nothing refers to any more are gone
Collect(hp, roots) == [a \in Addr |-> IF a \in roots THEN hp[a] ELSE Dead]

----------------------------------------------------------------------------
(* _load_data_cached *)

NoMtime == 0     \* current_mtime = None

REQUIRED_COLUMNS ==
  {"document_content", "Gestellt_am", "Typ", "Erledigt_am",
   "Zustaendiges_Referat", "Gestellt_von", "document_link", "name"}

NoEntry == [present |-> FALSE, data |-> 0, mtime |-> 0]

\* os.path.getmtime(file), None (written NoMtime) on OSError
GetMtime(dsk, file) == IF dsk[file].exists THEN dsk[file].mtime ELSE NoMtime

\* pd.read_csv(file, usecols=REQUIRED_COLUMNS), and pd.read_csv(file) when columns are missing
ReadCsv(f) ==
  LET cols == IF REQUIRED_COLUMNS \subseteq f.columns THEN REQUIRED_COLUMNS ELSE f.columns
  IN  [columns |-> cols,
       rows |-> [i \in 1..Len(f.rows) |-> [c \in cols |-> f.rows[i][c]]]]

\* df["Gestellt am"] = pd.to_datetime(df["Gestellt am"], errors="coerce")
NormalizeDates(df) ==
  [df EXCEPT !.rows = [i \in 1..Len(@) |-> [@[i] EXCEPT !.Gestellt_am = ToDatetimeCoerce(@)]]]

\* the date normalization and sort of a freshly read table
NormalizeAndSort(df) ==
  IF "Gestellt_am" \in df.columns
  THEN [df EXCEPT !.rows = SortValues(NormalizeDates(df).rows)]
  ELSE df

\* the cache check with the modification time left out: `if file in _data_cache:`
CacheHit_IgnoresMtime(cache, file, current_mtime) == cache[file].present

\* `file in _data_cache and _data_cache[file]['mtime'] == current_mtime`
CacheHit(cache, file, current_mtime) ==
  cache[file].present /\ cache[file].mtime = current_mtime

\* what the call returns once it holds its copy c of the cached table
LoadReturns(cache, c) == [raised |-> FALSE, cache |-> cache, heap |-> c.heap, df |-> c.addr]

\* the freshly read table df is stored under current_mtime, and a copy of it returned
LoadStores(cache, file, current_mtime, df) ==
  LoadReturns([cache EXCEPT ![file] = [present |-> TRUE, data |-> df.addr, mtime |-> current_mtime]],
              DfCopy(df.heap, df.addr))

\* the entry of the path is dropped before the file is read
LoadDataCached_ForgetsFirst(cache, hp, dsk, file) ==
  IF CacheHit(cache, file, GetMtime(dsk, file))
  THEN LoadReturns(cache, DfCopy(hp, cache[file].data))
  ELSE IF ~dsk[file].exists
  THEN [raised |-> TRUE, cache |-> [cache EXCEPT ![file] = NoEntry], heap |-> hp, df |-> 0]
  ELSE LoadStores(cache, file, GetMtime(dsk, file), New(hp, NormalizeAndSort(ReadCsv(dsk[file]))))

\* _load_data_cached(file): the cache and heap after the call, and the address of the
\* DataFrame returned; raised when read_csv cannot open the file
LoadDataCached(cache, hp, dsk, file) ==
  IF CacheHit(cache, file, GetMtime(dsk, file))
  THEN LoadReturns(cache, DfCopy(hp, cache[file].data))
  ELSE IF ~dsk[file].exists
  THEN [raised |-> TRUE, cache |-> cache, heap |-> hp, df |-> 0]
  ELSE LoadStores(cache, file, GetMtime(dsk, file), New(hp, NormalizeAndSort(ReadCsv(dsk[file]))))

----------------------------------------------------------------------------
(* _slice_by_date *)

None == [k |-> "None", v |-> <<>>]

\* `if date_from:` -- the bound is given
Given(bound) == bound # None

\* the window of the sorted table between the two bounds
SliceSorted(sorted, date_from, date_to) ==
  LET \* pd.to_datetime(bound) raises ValueError on text that is no date: the bound is skipped
      start_idx == IF Given(date_from) /\ Parses(date_from)
                   THEN SearchSortedLeft(sorted.rows, ToDatetimeCoerce(date_from)) ELSE 0
      end_idx == IF Given(date_to) /\ Parses(date_to)
                 THEN SearchSortedRight(sorted.rows, ToDatetimeCoerce(date_to)) ELSE Len(sorted.rows)
  IN  [sorted EXCEPT !.rows = SubSeq(@, start_idx + 1, end_idx)]

\* _slice_by_date(df, date_from, date_to)
SliceByDate(df, date_from, date_to) ==
  IF "Gestellt_am" \notin df.columns THEN df
  ELSE SliceSorted(IF IsMonotonicIncreasing(df.rows) THEN df
                   ELSE [df EXCEPT !.rows = SortValues(NormalizeDates(df).rows)],
                   date_from, date_to)

----------------------------------------------------------------------------
(* find_word_occurrences and find_words_frequency *)

\* `not word or not isinstance(word, str) or word.strip() == ""`
IsBlankWord(word) == word = <<>> \/ StripIsEmpty(word)

\* df["count"] = df["document_content"].astype(str).str.contains(pattern, na=False).astype(int)
\* df["occurrences"] = df["count"]
CountMatches(df, word) ==
  LET hit(r) == IF StrContains(AsTypeStr(r.document_content), word) THEN 1 ELSE 0
      counted == ComputeColumn(df, "count", hit)
      occ(r) == r.count
  IN  ComputeColumn(counted, "occurrences", occ)

\* df["occurrences"] = 0; df["count"] = 0
CountNothing(df) == SetColumn(SetColumn(df, "occurrences", 0), "count", 0)

\* the rows without a hit kept too
Matched_KeepsAll(df) == df

\* df[df["count"] > 0]
Matched(df) == LET pos(r) == r.count > 0 IN Where(df, pos)

\* the body both finders share once they hold their private table: count, then keep the hits
MatchWord(df_local, word) ==
  IF IsBlankWord(word) \/ ReCompileFails(word)
  THEN Matched(CountNothing(df_local))
  ELSE Matched(CountMatches(df_local, word))

\* re.compile is reached with this word and raises what the finders do not catch
CompileEscapes(word) == ~IsBlankWord(word) /\ ~ReCompileFails(word) /\ ReCompileOverflows(word)

\* the word is matched against df["document_content"]
ReadsContent(word) == ~IsBlankWord(word) /\ ~ReCompileFails(word)

RECURSIVE SumCount(_)
\* df["count"].sum()
SumCount(rows) == IF rows = <<>> THEN 0 ELSE rows[1].count + SumCount(Tail(rows))

\* find_word_occurrences once the table is loaded
OccurrencesIn(ld, word) ==
  IF \/ ld.raised
     \* df["document_content"]: KeyError when the file has no such column
     \/ "document_content" \notin ld.heap[ld.df].df.columns
     \/ CompileEscapes(word)
  THEN [raised |-> TRUE, cache |-> ld.cache, heap |-> ld.heap, df |-> EmptyFrame, total |-> 0]
  ELSE LET astype(r) == AsTypeStr(r.document_content)
           \* df["document_content"] = df["document_content"].astype(str)
           df == ComputeColumn(ld.heap[ld.df].df, "document_content", astype)
           counted == IF IsBlankWord(word) \/ ReCompileFails(word)
                      THEN CountNothing(df) ELSE CountMatches(df, word)
       IN  [raised |-> FALSE, cache |-> ld.cache,
            \* the columns are written to the object the loader returned
            heap |-> [ld.heap EXCEPT ![ld.df].df = counted],
            df |-> Matched(counted),
            \* int(df["count"].sum())
            total |-> SumCount(counted.rows)]

\* find_word_occurrences(file, word)
FindWordOccurrences(cache, hp, dsk, file, word) == OccurrencesIn(LoadDataCached(cache, hp, dsk, file), word)

\* _process_word(word) inside find_words_frequency: works on base_df.copy(deep=True)
ProcessWord(base_df, word) == MatchWord(base_df, word)

\* df[df["Typ"].isin(typ_filter)]
TypIsIn(df, typ_filter) == LET keep(r) == r.Typ \in typ_filter IN Where(df, keep)

\* only the frame of the worker that completed first
ConcatRows_FirstOnly(dfs, order) == IF order = <<>> THEN <<>> ELSE dfs[order[1]].rows

RECURSIVE ConcatRows(_, _)
\* pd.concat(dfs, ignore_index=True) for the frames dfs[order[1]], dfs[order[2]], ...
ConcatRows(dfs, order) ==
  IF order = <<>> THEN <<>>
  ELSE dfs[order[1]].rows \o ConcatRows(dfs, SubSeq(order, 2, Len(order)))

\* `date_filter and (date_filter.get("from") or date_filter.get("to"))`
DateFilterActive(date_filter) == Given(date_filter.from) \/ Given(date_filter.to)

\* `not search_terms or all(not w for w in search_terms)`
NoWordsLeft(search_terms) == \A i \in 1..Len(search_terms) : search_terms[i] = <<>>

\* search_terms = words or []; if expand_with_themes: search_terms = _expand_search_terms_with_themes(...)
SearchTerms(words, expand_with_themes) ==
  IF expand_with_themes
  THEN SetToSeq(ExpandSearchTermsWithThemes(words))
  ELSE words

\* get_expanded_search_terms(words, expand_with_themes)
GetExpandedSearchTerms(words, expand_with_themes) ==
  [original |-> words, expanded |-> SearchTerms(words, expand_with_themes)]

\* an exception leaves find_words_frequency once the table is loaded and sliced
FindRaises(columns, search_terms, typ_filter) ==
  \* df["Typ"]: KeyError when the file has no such column
  \/ typ_filter # {} /\ "Typ" \notin columns
  \/ /\ ~NoWordsLeft(search_terms)
     /\ \E i \in 1..Len(search_terms) :
          \* future.result() re-raises what the worker raised
          \/ CompileEscapes(search_terms[i])
          \/ ReadsContent(search_terms[i]) /\ "document_content" \notin columns

\* the type filter left out
FilterTyp_Ignored(df, typ_filter) == df

\* rows_with_words[rows_with_words["Typ"].isin(typ_filter)] `if typ_filter:`
FilterTyp(df, typ_filter) == IF typ_filter # {} THEN TypIsIn(df, typ_filter) ELSE df

\* what find_words_frequency returns: the rows and their number
Found(ld, hp, df) == [raised |-> FALSE, cache |-> ld.cache, heap |-> hp, df |-> df, total |-> Len(df.rows)]

\* the match-all branch on the filtered table df
MatchAll(ld, df, same_object) ==
  Found(ld,
        \* df is the loaded table itself unless a slice or a filter made a new object
        IF same_object
        THEN [ld.heap EXCEPT ![ld.df].df = SetColumn(SetColumn(df, "occurrences", 0), "count", 1)]
        ELSE ld.heap,
        SetColumn(SetColumn(df, "occurrences", 0), "count", 1))

\* the workers' frames put together
MergeWorkers(base_df, search_terms, order) ==
  [columns |-> base_df.columns \cup {"count", "occurrences"},
   rows |-> DropDuplicateRows(ConcatRows([i \in 1..Len(search_terms) |-> ProcessWord(base_df, search_terms[i])],
                                         order))]

\* find_words_frequency on the loaded and sliced table base_df
FindIn(ld, base_df, search_terms, typ_filter, date_filter, order) ==
  IF NoWordsLeft(search_terms)
  THEN MatchAll(ld, FilterTyp(base_df, typ_filter),
                ~(DateFilterActive(date_filter) /\ "Gestellt_am" \in base_df.columns) /\ typ_filter = {})
  ELSE Found(ld, ld.heap, FilterTyp(MergeWorkers(base_df, search_terms, order), typ_filter))

\* find_words_frequency once the table is loaded
FindLoaded(ld, search_terms, typ_filter, date_filter, order) ==
  IF ld.raised \/ FindRaises(ld.heap[ld.df].df.columns, search_terms, typ_filter)
  THEN [raised |-> TRUE, cache |-> ld.cache, heap |-> ld.heap, df |-> EmptyFrame, total |-> 0]
  ELSE FindIn(ld,
              IF DateFilterActive(date_filter)
              THEN SliceByDate(ld.heap[ld.df].df, date_filter.from, date_filter.to)
              ELSE ld.heap[ld.df].df,
              search_terms, typ_filter, date_filter, order)

(* find_words_frequency(file, words, typ_filter, date_filter, expand_with_themes); *)
(* order is the order in which the workers of the pool complete (as_completed).   *)
FindWordsFrequency(cache, hp, dsk, file, words, typ_filter, date_filter, expand_with_themes, order) ==
  FindLoaded(LoadDataCached(cache, hp, dsk, file), SearchTerms(words, expand_with_themes),
             typ_filter, date_filter, order)

\* _annotate_themes(df) when no spaCy model can be loaded: _detect_themes_in_text returns []
\* for every text; with a model the lists name themes, the rows are the same
AnnotateThemes(df) == SetColumn(df, "themes_detected", <<>>)

\* what find_words_frequency returns with annotate_themes set, given what it returns without
Annotated(found, annotate_themes) ==
  IF annotate_themes /\ ~found.raised THEN [found EXCEPT !.df = AnnotateThemes(@)] ELSE found

\* orders in which n workers complete: the order of submission, its reverse and a
\* rotation of it (every order there is, for n <= 2)
CompletionOrders(n) ==
  { [i \in 1..n |-> i], [i \in 1..n |-> n + 1 - i], [i \in 1..n |-> (i % n) + 1] }

----------------------------------------------------------------------------
(* compute_fraktionen_share *)

RECURSIVE ExplodedNames(_)
(* df[group_by].astype(str).str.split(','), explode, str.strip(): the names of  *)
(* the exploded rows, one for every entry of every row's list                    *)
ExplodedNames(rows) ==
  IF rows = <<>> THEN <<>>
  ELSE LET parts == StrSplit(AsTypeStr(rows[1].Gestellt_von), ",")
       IN  [i \in 1..Len(parts) |-> StrStrip(parts[i])] \o ExplodedNames(Tail(rows))

\* groupby(group_by).size() / groupby(group_by)["count"].sum() of the exploded rows
\* (every matched row has count 1)
CountOf(names, n) == Cardinality({i \in 1..Len(names) : names[i] = n})

RECURSIVE SortedNames(_)
\* the group keys in the order groupby gives them: sorted
SortedNames(S) ==
  IF S = {} THEN <<>>
  ELSE LET least == CHOOSE x \in S : \A y \in S \ {x} : StrLess(x, y)
       IN  <<least>> \o SortedNames(S \ {least})

\* a.share > b.share, a share being count / total
ShareGreater(a, b) == a.count * b.total > b.count * a.total

RECURSIVE InsertByShare(_, _)
InsertByShare(sorted, r) ==
  IF sorted = <<>> THEN <<r>>
  ELSE IF ShareGreater(r, sorted[Len(sorted)])
       THEN Append(InsertByShare(SubSeq(sorted, 1, Len(sorted) - 1), r), sorted[Len(sorted)])
       ELSE Append(sorted, r)

RECURSIVE SortByShare(_)
\* merged.sort_values("share", ascending=False): rows of equal share keep their order
SortByShare(rows) ==
  IF rows = <<>> THEN <<>>
  ELSE InsertByShare(SortByShare(SubSeq(rows, 1, Len(rows) - 1)), rows[Len(rows)])

\* df_all after the type filter and the date filter: the rows the totals are counted on
TotalsTable(loaded, typ_filter, date_filter) ==
  LET typed == IF typ_filter # {} THEN TypIsIn(loaded, typ_filter) ELSE loaded
      \* df_all[df_all["Gestellt am"] >= date_from]
      from_ok(r) == TsLeq(ToDatetimeCoerce(date_filter.from), ToDatetimeCoerce(r.Gestellt_am))
      \* df_all[df_all["Gestellt am"] <= date_to]
      to_ok(r) == TsLeq(ToDatetimeCoerce(r.Gestellt_am), ToDatetimeCoerce(date_filter.to))
      after == IF Given(date_filter.from) THEN Where(typed, from_ok) ELSE typed
  IN  IF Given(date_filter.to) THEN Where(after, to_ok) ELSE after

\* totals merged with the matched counts, the rows without a match dropped, sorted by share
MergeShares(df_all, rows_with_words) ==
  IF "Gestellt_von" \notin df_all.columns THEN <<>>
  ELSE LET all_names == ExplodedNames(df_all.rows)
           matched_names == IF rows_with_words.rows = <<>> \/ "Gestellt_von" \notin rows_with_words.columns
                            THEN <<>> ELSE ExplodedNames(rows_with_words.rows)
           keys == SortedNames(Range(all_names))
           merged == [i \in 1..Len(keys) |->
                        [name |-> keys[i], total |-> CountOf(all_names, keys[i]),
                         count |-> CountOf(matched_names, keys[i])]]
           positive(r) == r.count > 0
       IN  SortByShare(SelectSeq(merged, positive))

\* the outcome, given what the first load and find_words_frequency returned
ShareOutcome(ld, found, typ_filter, date_filter) ==
  \* pd.to_datetime(date_filter["from"]) raises on text that is no date
  LET bad_bound == \/ Given(date_filter.from) /\ ~Parses(date_filter.from)
                   \/ Given(date_filter.to) /\ ~Parses(date_filter.to)
      \* df_all["Typ"], df_all["Gestellt am"]: KeyError when the file has no such column
      key_error == \/ typ_filter # {} /\ "Typ" \notin ld.heap[ld.df].df.columns
                   \/ DateFilterActive(date_filter) /\ "Gestellt_am" \notin ld.heap[ld.df].df.columns
  IN  IF ld.raised \/ key_error \/ bad_bound
      THEN [raised |-> TRUE, cache |-> ld.cache, heap |-> ld.heap, rows |-> <<>>]
      ELSE IF "Gestellt_von" \notin ld.heap[ld.df].df.columns
      THEN [raised |-> FALSE, cache |-> ld.cache, heap |-> ld.heap, rows |-> <<>>]
      ELSE [raised |-> found.raised, cache |-> found.cache, heap |-> found.heap,
            rows |-> MergeShares(TotalsTable(ld.heap[ld.df].df, typ_filter, date_filter), found.df)]

(* compute_fraktionen_share(file, words, "Gestellt von", typ_filter, date_filter): *)
(* rows [name, count, total], share being count / total                            *)
ComputeFraktionenShare(cache, hp, dsk, file, words, typ_filter, date_filter, order) ==
  LET ld == LoadDataCached(cache, hp, dsk, file)
  IN  ShareOutcome(ld,
                   FindWordsFrequency(ld.cache, ld.heap, dsk, file, words, typ_filter, date_filter, TRUE, order),
                   typ_filter, date_filter)

----------------------------------------------------------------------------
(* Timestamps back to calendar dates *)

\* Timestamp.year
YearOf(n) ==
  CHOOSE y \in (n \div 366 + 1)..(n \div 365 + 1) : DaysBeforeYear(y) < n /\ n <= DaysBeforeYear(y + 1)

\* Timestamp.month
MonthOf(n) ==
  LET y == YearOf(n)
      d == n - DaysBeforeYear(y)
  IN  CHOOSE m \in 1..12 : DaysBeforeMonth(y, m) < d /\ d <= DaysBeforeMonth(y, m) + DaysInMonth(y, m)

\* the year alone, every row in its January
StrfYearMonth_YearOnly(ts) == <<YearOf(Day(ts)), 1>>

\* dt.strftime("%Y-%m"): the year and the month
StrfYearMonth(ts) == <<YearOf(Day(ts)), MonthOf(Day(ts))>>

\* strftime("%Y-%m-%d")
StrfDate(ts) ==
  LET y == YearOf(Day(ts))
      m == MonthOf(Day(ts))
  IN  DateText(y, m, Day(ts) - DaysBeforeYear(y) - DaysBeforeMonth(y, m))

\* "YYYY-MM" strings in their order
MonthLess(a, b) == a[1] < b[1] \/ (a[1] = b[1] /\ a[2] < b[2])

RECURSIVE SortedMonths(_)
SortedMonths(S) ==
  IF S = {} THEN <<>>
  ELSE LET least == CHOOSE x \in S : \A y \in S \ {x} : MonthLess(x, y)
       IN  <<least>> \o SortedMonths(S \ {least})

\* groupby([key, "Typ"])["count"].sum() for one key: the dict Typ -> count of its rows
TypBreakdown(rows) ==
  [t \in {rows[i].Typ : i \in 1..Len(rows)} |->
     LET of_type(r) == r.Typ = t IN SumCount(SelectSeq(rows, of_type))]

----------------------------------------------------------------------------
(* compute_monthly_trend *)

\* compute_monthly_trend, given what find_words_frequency returned
ComputeMonthlyTrend(found) ==
  IF found.raised THEN [raised |-> TRUE, rows |-> <<>>]
  \* rows_with_words.empty
  ELSE IF found.df.rows = <<>> THEN [raised |-> FALSE, rows |-> <<>>]
  \* rows_with_words["Gestellt am"], groupby(["month", "Typ"]): KeyError
  ELSE IF "Gestellt_am" \notin found.df.columns \/ "Typ" \notin found.df.columns
  THEN [raised |-> TRUE, rows |-> <<>>]
  ELSE
    LET \* rows_with_words[rows_with_words["Gestellt am"].notna()]
        dated(r) == ~IsNaT(ToDatetimeCoerce(r.Gestellt_am))
        kept == SelectSeq(found.df.rows, dated)
        month(r) == StrfYearMonth(ToDatetimeCoerce(r.Gestellt_am))
        months == SortedMonths({month(kept[i]) : i \in 1..Len(kept)})
    IN  [raised |-> FALSE,
         rows |-> [i \in 1..Len(months) |->
                     LET in_month(r) == month(r) = months[i]
                     IN  [month |-> months[i],
                          count |-> SumCount(SelectSeq(kept, in_month)),
                          typ_breakdown |-> TypBreakdown(SelectSeq(kept, in_month))]]]

----------------------------------------------------------------------------
(* compute_fraktionen *)

\* the submitter field taken as one name
ExplodedRows_WholeField(rows) ==
  [i \in 1..Len(rows) |->
     [name |-> StrStrip(AsTypeStr(rows[i].Gestellt_von)), Typ |-> rows[i].Typ, count |-> rows[i].count]]

RECURSIVE ExplodedRows(_)
\* astype(str).str.split(','), explode, str.strip(): one row for every entry of every
\* row's list, the other cells repeated
ExplodedRows(rows) ==
  IF rows = <<>> THEN <<>>
  ELSE LET parts == StrSplit(AsTypeStr(rows[1].Gestellt_von), ",")
       IN  [i \in 1..Len(parts) |-> [name |-> StrStrip(parts[i]), Typ |-> rows[1].Typ, count |-> rows[1].count]]
           \o ExplodedRows(Tail(rows))

RECURSIVE InsertByCount(_, _)
InsertByCount(sorted, r) ==
  IF sorted = <<>> THEN <<r>>
  ELSE IF r.count > sorted[Len(sorted)].count
       THEN Append(InsertByCount(SubSeq(sorted, 1, Len(sorted) - 1), r), sorted[Len(sorted)])
       ELSE Append(sorted, r)

RECURSIVE SortByCount(_)
\* agg.sort_values("count", ascending=False)
SortByCount(rows) ==
  IF rows = <<>> THEN <<>>
  ELSE InsertByCount(SortByCount(SubSeq(rows, 1, Len(rows) - 1)), rows[Len(rows)])

\* compute_fraktionen with group_by = "Gestellt von", given what find_words_frequency returned
ComputeFraktionen(found) ==
  IF found.raised THEN [raised |-> TRUE, rows |-> <<>>]
  ELSE IF found.df.rows = <<>> \/ "Gestellt_von" \notin found.df.columns
  THEN [raised |-> FALSE, rows |-> <<>>]
  \* groupby([group_by, "Typ"]): KeyError
  ELSE IF "Typ" \notin found.df.columns THEN [raised |-> TRUE, rows |-> <<>>]
  ELSE
    LET exploded == ExplodedRows(found.df.rows)
        keys == SortedNames({exploded[i].name : i \in 1..Len(exploded)})
        agg == [i \in 1..Len(keys) |->
                  LET named(r) == r.name = keys[i]
                  IN  [name |-> keys[i],
                       count |-> SumCount(SelectSeq(exploded, named)),
                       typ_breakdown |-> TypBreakdown(SelectSeq(exploded, named))]]
    IN  [raised |-> FALSE, rows |-> SortByCount(agg)]

----------------------------------------------------------------------------
(* compute_processing_metrics *)

NoDays == [k |-> "NaN", v |-> <<>>]

\* (Erledigt am - Gestellt am).dt.days of one row: NaN when one of the two is NaT
ProcessingDays(r) ==
  LET done == ToDatetimeCoerce(r.Erledigt_am)
      asked == ToDatetimeCoerce(r.Gestellt_am)
  IN  IF IsNaT(done) \/ IsNaT(asked) THEN NoDays ELSE [k |-> "days", v |-> <<Day(done) - Day(asked)>>]

RECURSIVE SumDays(_)
SumDays(rows) ==
  IF rows = <<>> THEN 0
  ELSE (IF ProcessingDays(rows[1]) = NoDays THEN 0 ELSE ProcessingDays(rows[1]).v[1]) + SumDays(Tail(rows))

\* Series.mean() of the processing days that are not NaN: the sum and the number of
\* the values (the mean is sum / n), None without a value
NoMean == [sum |-> 0, n |-> 0]
MeanDays(rows) ==
  LET valid(r) == ProcessingDays(r) # NoDays
  IN  [sum |-> SumDays(SelectSeq(rows, valid)), n |-> Len(SelectSeq(rows, valid))]

\* a.avgDays > b.avgDays; a mean of nothing is NaN and sorts last
MeanGreater(a, b) == a.n > 0 /\ (b.n = 0 \/ a.sum * b.n > b.sum * a.n)

RECURSIVE InsertByMean(_, _)
InsertByMean(sorted, r) ==
  IF sorted = <<>> THEN <<r>>
  ELSE IF MeanGreater(r.avgDays, sorted[Len(sorted)].avgDays)
       THEN Append(InsertByMean(SubSeq(sorted, 1, Len(sorted) - 1), r), sorted[Len(sorted)])
       ELSE Append(sorted, r)

RECURSIVE SortByMean(_)
\* referat_stats.sort_values("avgDays", ascending=False)
SortByMean(rows) ==
  IF rows = <<>> THEN <<>>
  ELSE InsertByMean(SortByMean(SubSeq(rows, 1, Len(rows) - 1)), rows[Len(rows)])

\* an empty cell of the department column
NoReferat == "<NaN>"

RECURSIVE SortedReferate(_, _)
\* the group keys of groupby("Zuständiges Referat") in their order, given that order
SortedReferate(S, order) ==
  IF order = <<>> THEN <<>>
  ELSE (IF order[1] \in S THEN <<order[1]>> ELSE <<>>) \o SortedReferate(S, Tail(order))

\* the departments of the data, sorted
ReferatOrder == <<"Baureferat", "Kulturreferat">>

\* byReferat: the statistics of the closed rows per department (rows without one are
\* not in any group)
ByReferat(closed_rows) ==
  LET keys == SortedReferate({closed_rows[i].Zustaendiges_Referat : i \in 1..Len(closed_rows)} \ {NoReferat},
                             ReferatOrder)
      stats == [i \in 1..Len(keys) |->
                  LET of_referat(r) == r.Zustaendiges_Referat = keys[i]
                      group == SelectSeq(closed_rows, of_referat)
                      one(r) == [r EXCEPT !.count = 1]
                  IN  [referat |-> keys[i],
                       avgDays |-> MeanDays(group),
                       count |-> MeanDays(group).n,
                       \* groupby([referat, "Typ"]).size()
                       typ_breakdown |-> TypBreakdown([j \in 1..Len(group) |-> one(group[j])])]]
  IN  SortByMean(stats)

\* closed only if the processing time is known
IsClosed_WithDuration(r) == ProcessingDays(r) # NoDays

\* rows_with_words["Erledigt am"].notna()
IsClosed(r) == ~IsNaT(ToDatetimeCoerce(r.Erledigt_am))

\* rows_with_words["Erledigt am"].isna()
IsOpen(r) == IsNaT(ToDatetimeCoerce(r.Erledigt_am))

NoMetrics == [avgDays |-> NoMean, openCount |-> 0, closedCount |-> 0, totalCount |-> 0, byReferat |-> <<>>]

\* compute_processing_metrics, given what find_words_frequency returned
ComputeProcessingMetrics(found) ==
  IF found.raised THEN [raised |-> TRUE, metrics |-> NoMetrics]
  ELSE IF found.df.rows = <<>> THEN [raised |-> FALSE, metrics |-> NoMetrics]
  \* rows_with_words["Gestellt am"], rows_with_words["Erledigt am"]: KeyError
  ELSE IF "Gestellt_am" \notin found.df.columns \/ "Erledigt_am" \notin found.df.columns
  THEN [raised |-> TRUE, metrics |-> NoMetrics]
  \* closed_rows.groupby(["Zuständiges Referat", "Typ"]): KeyError
  ELSE IF "Zustaendiges_Referat" \in found.df.columns /\ "Typ" \notin found.df.columns
  THEN [raised |-> TRUE, metrics |-> NoMetrics]
  ELSE
    LET closed_rows == SelectSeq(found.df.rows, IsClosed)
    IN  [raised |-> FALSE,
         metrics |-> [avgDays |-> MeanDays(closed_rows),
                      openCount |-> Len(SelectSeq(found.df.rows, IsOpen)),
                      closedCount |-> Len(closed_rows),
                      totalCount |-> Len(found.df.rows),
                      byReferat |-> IF "Zustaendiges_Referat" \in found.df.columns
                                    THEN ByReferat(closed_rows) ELSE <<>>]]

----------------------------------------------------------------------------
(* compute_date_range, get_available_typen, get_filtered_applications *)

NoDate == [minDate |-> None, maxDate |-> None]

\* compute_date_range, given what _load_data_cached returned; `except Exception` turns
\* a failed load into the answer without dates
ComputeDateRange(ld) ==
  IF ld.raised THEN NoDate
  ELSE LET df == ld.heap[ld.df].df
       IN  IF df.rows = <<>> \/ "Gestellt_am" \notin df.columns THEN NoDate
           ELSE LET valid == {ToDatetimeCoerce(df.rows[i].Gestellt_am) : i \in 1..Len(df.rows)} \ {NaT}
                IN  IF valid = {} THEN NoDate
                    ELSE [minDate |-> StrfDate(CHOOSE a \in valid : \A b \in valid : Day(a) <= Day(b)),
                          maxDate |-> StrfDate(CHOOSE a \in valid : \A b \in valid : Day(a) >= Day(b))]

\* the types of the data, sorted
TypOrder == <<"Anfrage", "Antrag">>

\* get_available_typen, given what _load_data_cached returned; `except Exception` turns
\* a failed load into the empty list
GetAvailableTypen(ld) ==
  IF ld.raised THEN <<>>
  ELSE LET df == ld.heap[ld.df].df
       IN  IF df.rows = <<>> \/ "Typ" \notin df.columns THEN <<>>
           ELSE LET typen == {df.rows[i].Typ : i \in 1..Len(df.rows)}
                    present(t) == t \in typen
                IN  SelectSeq(TypOrder, present)

RECURSIVE InsertNewestFirst(_, _)
InsertNewestFirst(sorted, r) ==
  IF sorted = <<>> THEN <<r>>
  ELSE IF SortsBefore(sorted[Len(sorted)].Gestellt_am, r.Gestellt_am) /\ ~IsNaT(r.Gestellt_am)
       THEN Append(InsertNewestFirst(SubSeq(sorted, 1, Len(sorted) - 1), r), sorted[Len(sorted)])
       ELSE Append(sorted, r)

RECURSIVE SortNewestFirst(_)
\* sort_values("Gestellt am", ascending=False, na_position="last")
SortNewestFirst(rows) ==
  IF rows = <<>> THEN <<>>
  ELSE InsertNewestFirst(SortNewestFirst(SubSeq(rows, 1, Len(rows) - 1)), rows[Len(rows)])

\* `words and any(w.strip() for w in words)`
AnyWordToSearch(words) == \E i \in 1..Len(words) : ~StripIsEmpty(words[i])

\* get_filtered_applications, given what find_words_frequency (with a word to search)
\* or _load_data_cached (without one) returned; `except Exception` turns every failure
\* into an empty DataFrame
GetFilteredApplications(found, ld, words, typ_filter, date_filter) ==
  LET newest_first(df) == IF "Gestellt_am" \in df.columns
                          THEN [df EXCEPT !.rows = SortNewestFirst(@)] ELSE df
  IN  IF AnyWordToSearch(words)
      THEN IF found.raised THEN EmptyFrame ELSE newest_first(found.df)
      ELSE IF ld.raised THEN EmptyFrame
      ELSE LET loaded == ld.heap[ld.df].df
               sliced == IF DateFilterActive(date_filter)
                         THEN SliceByDate(loaded, date_filter.from, date_filter.to) ELSE loaded
           IN  IF typ_filter # {} /\ "Typ" \notin sliced.columns THEN EmptyFrame
               ELSE newest_first(IF typ_filter # {} THEN TypIsIn(sliced, typ_filter) ELSE sliced)

----------------------------------------------------------------------------
(* The data the model runs on *)

Files == {"data.csv", "other.csv"}
Callers == {"c1", "c2"}

Str_Fahrrad == <<"F","a","h","r","r","a","d">>
Str_busBUS == <<"b","u","s"," ","B","U","S">>
Str_Bus == <<"B","u","s">>
Str_BusTram == <<"B","u","s"," ","T","r","a","m">>
Str_CSU == <<"C","S","U">>
Str_SPD_CSU == <<"S","P","D",","," ","C","S","U">>

\* the rows a source file is made of
FileRows ==
  { [name |-> "d1", document_link |-> "l1", document_content |-> Str_Fahrrad,
     Gestellt_am |-> DateText(2024, 1, 10), Typ |-> "Antrag", Gestellt_von |-> Str_CSU,
     Erledigt_am |-> DateText(2024, 3, 1), Zustaendiges_Referat |-> "Baureferat"],
    [name |-> "d2", document_link |-> "l2", document_content |-> Str_busBUS,
     Gestellt_am |-> DateText(2024, 2, 5), Typ |-> "Anfrage", Gestellt_von |-> Str_SPD_CSU,
     Erledigt_am |-> EmptyCell, Zustaendiges_Referat |-> "<NaN>"],
    [name |-> "d3", document_link |-> "l3", document_content |-> Str_BusTram,
     Gestellt_am |-> EmptyCell, Typ |-> "Antrag", Gestellt_von |-> Str_CSU,
     Erledigt_am |-> DateText(2024, 2, 29), Zustaendiges_Referat |-> "Baureferat"],
    [name |-> "d4", document_link |-> "l4", document_content |-> NaN,
     Gestellt_am |-> DateText(2024, 13, 45), Typ |-> "Anfrage", Gestellt_von |-> NaN,
     Erledigt_am |-> EmptyCell, Zustaendiges_Referat |-> "<NaN>"] }

RECURSIVE SeqsUpTo(_, _)
\* the lists of at most n elements of S
SeqsUpTo(S, n) ==
  IF n = 0 THEN {<<>>}
  ELSE LET shorter == SeqsUpTo(S, n - 1)
       IN  shorter \cup {Append(q, x) : q \in shorter, x \in S}

\* the row of the document called n
RowOf(n) == CHOOSE r \in FileRows : r.name = n

\* the contents a source file can have
\* (each document once in any order, or one document on two identical lines)
FileContents ==
  LET once == {rs \in SeqsUpTo(FileRows, MaxRows) : \A i, j \in 1..Len(rs) : i # j => rs[i] # rs[j]}
      twice == {<<r, r>> : r \in {q \in FileRows : q.name = "d2"}}
  IN  {[columns |-> REQUIRED_COLUMNS, rows |-> rs] : rs \in once \cup twice}

\* the terms of a query: empty, blank, a lexicon phrase, a pattern with a wildcard (it
\* matches the text "nan" of a missing value)
QueryTerms == { <<>>, <<" ">>, Str_Bus, <<"n",".","n">> }
\* a pattern that does not compile
Unbalanced == <<"(">>
\* a pattern with a repetition count of eleven digits
TooManyRepeats == <<"s", "{", "9", "9", "9", "9", "9", "9", "9", "9", "9", "9", "9", "}">>
Patterns == QueryTerms \cup {Unbalanced, TooManyRepeats}
WordLists ==
  SeqsUpTo(QueryTerms, MaxTerms)
    \cup {<<Unbalanced>>, <<Unbalanced, Str_Bus>>, <<Str_Bus, Unbalanced>>,
          <<TooManyRepeats>>, <<Str_Bus, TooManyRepeats>>}

TypFilters == { {}, {"Antrag"} }
DateBounds == [from : {None, DateText(2024, 2, 1)}, to : {None, DateText(2024, 2, 28)}]

----------------------------------------------------------------------------
(* States and actions *)

NoCall == [name |-> "none"]
NoResult == [raised |-> FALSE]
NoSnapshot == [mtime |-> NoMtime, df |-> EmptyFrame]
NoFile == [exists |-> FALSE, columns |-> {}, rows |-> <<>>, mtime |-> NoMtime]

\* the objects something still refers to: the cached tables and the tables callers hold
Roots(cache, hd) ==
  {cache[f].data : f \in {g \in Files : cache[g].present}} \cup {hd[c] : c \in {d \in Callers : hd[d] # 0}}

\* no query is in its fan-out
NoPool == [pc |-> "idle"]

InitProcess ==
  /\ _data_cache = [f \in Files |-> NoEntry]
  /\ heap = [a \in Addr |-> Dead]
  /\ held = [c \in Callers |-> 0]
  /\ call = NoCall
  /\ result = NoResult
  /\ loader = <<>>
  /\ snapshot = [f \in Files |-> NoSnapshot]
  /\ pool = NoPool

\* the process starts with data.csv on disk and nothing cached
Init ==
  /\ InitProcess
  /\ \E content \in FileContents :
       disk = [f \in Files |-> IF f = "data.csv"
                               THEN [exists |-> TRUE, columns |-> content.columns,
                                     rows |-> content.rows, mtime |-> 1]
                               ELSE NoFile]

\* a request runs find_words_frequency
FindWordsFrequencyCall ==
  /\ call = NoCall
  /\ \E words \in WordLists, typ_filter \in TypFilters, date_filter \in DateBounds, expand \in BOOLEAN :
    \E order \in CompletionOrders(Len(SearchTerms(words, expand))) :
      \E r \in {FindWordsFrequency(_data_cache, heap, disk, "data.csv", words, typ_filter, date_filter, expand, order)} :
          /\ call' = [name |-> "find_words_frequency", words |-> words, typ_filter |-> typ_filter,
                      date_filter |-> date_filter, expand_with_themes |-> expand]
          /\ result' = [raised |-> r.raised, df |-> r.df, total |-> r.total]
          /\ _data_cache' = r.cache
          /\ heap' = Collect(r.heap, Roots(r.cache, held))
          /\ UNCHANGED <<disk, held, loader, snapshot, pool>>

\* a request runs find_word_occurrences
FindWordOccurrencesCall ==
  /\ call = NoCall
  /\ \E word \in Patterns :
    \E r \in {FindWordOccurrences(_data_cache, heap, disk, "data.csv", word)} :
        /\ call' = [name |-> "find_word_occurrences", word |-> word]
        /\ result' = [raised |-> r.raised, df |-> r.df, total |-> r.total]
        /\ _data_cache' = r.cache
        /\ heap' = Collect(r.heap, Roots(r.cache, held))
        /\ UNCHANGED <<disk, held, loader, snapshot, pool>>

\* the request layer has serialized the result: the call is over
Respond ==
  /\ call # NoCall
  /\ call' = NoCall
  /\ result' = NoResult
  /\ UNCHANGED <<disk, _data_cache, heap, held, loader, snapshot, pool>>

Next ==
  \/ FindWordsFrequencyCall
  \/ FindWordOccurrencesCall
  \/ Respond

Spec == Init /\ [][Next]_vars

\* a request runs compute_fraktionen_share
ComputeFraktionenShareCall ==
  /\ call = NoCall
  /\ \E words \in WordLists, typ_filter \in TypFilters, date_filter \in DateBounds :
      \E order \in CompletionOrders(Len(SearchTerms(words, TRUE))) :
      \E r \in {ComputeFraktionenShare(_data_cache, heap, disk, "data.csv", words, typ_filter, date_filter, order)} :
          /\ call' = [name |-> "compute_fraktionen_share", words |-> words, typ_filter |-> typ_filter,
                      date_filter |-> date_filter]
          /\ result' = [raised |-> r.raised, rows |-> r.rows]
          /\ _data_cache' = r.cache
          /\ heap' = Collect(r.heap, Roots(r.cache, held))
          /\ UNCHANGED <<disk, held, loader, snapshot, pool>>

NextShare ==
  \/ ComputeFraktionenShareCall
  \/ Respond

\* a document whose submitter field lists one name twice
ListedTwice == [RowOf("d1") EXCEPT !.name = "d5", !.Gestellt_von = <<"C","S","U",","," ","C","S","U">>]

\* data.csv holds one of the contents, or the document listed twice next to another
InitShare ==
  /\ InitProcess
  /\ \E content \in FileContents \cup {[columns |-> REQUIRED_COLUMNS, rows |-> <<ListedTwice, RowOf("d2")>>]} :
       disk = [f \in Files |-> IF f = "data.csv"
                               THEN [exists |-> TRUE, columns |-> content.columns,
                                     rows |-> content.rows, mtime |-> 1]
                               ELSE NoFile]

SpecShare == InitShare /\ [][NextShare]_vars

----------------------------------------------------------------------------
(* The public operations on one process, with files that lack columns, files that *)
(* go away and date bounds that are no dates                                      *)

\* the content without one of its columns
Without(content, col) ==
  [columns |-> content.columns \ {col},
   rows |-> [i \in 1..Len(content.rows) |-> [c \in content.columns \ {col} |-> content.rows[i][c]]]]

\* the columns a file of the model can lack
DroppedColumns == {"Typ", "Gestellt_von", "Erledigt_am", "Zustaendiges_Referat", "Gestellt_am"}

OpsContents ==
  FileContents
    \cup {[columns |-> REQUIRED_COLUMNS, rows |-> <<RowOf("d3"), RowOf("d2"), RowOf("d1")>>]}
    \cup {Without([columns |-> REQUIRED_COLUMNS, rows |-> <<RowOf("d1"), RowOf("d2")>>], col) : col \in DroppedColumns}

\* the callers of the request layer pass [word] or []
OpsWords == { <<>>, <<Str_Bus>>, <<<<"n", ".", "n">>>> }

\* no filter, one type, two types, a type in another case
OpsTypFilters == { {}, {"Antrag"}, {"Antrag", "Anfrage"}, {"antrag"} }

\* text that is no date
NoDateText == DateText(2024, 13, 45)

\* no bound, a lone from, both, and each of the two as text that is no date
OpsDateBounds ==
  { [from |-> None, to |-> None],
    [from |-> DateText(2024, 2, 1), to |-> None],
    [from |-> DateText(2024, 2, 1), to |-> DateText(2024, 2, 28)],
    [from |-> NoDateText, to |-> DateText(2024, 2, 28)],
    [from |-> DateText(2024, 2, 1), to |-> NoDateText] }

OpsQueries ==
  [words : OpsWords, typ_filter : OpsTypFilters, date_filter : OpsDateBounds]

\* what an operation answers and leaves behind, given what the functions it starts
\* with returned
AnswerOf(name, found, ld, share, q) ==
  CASE name = "find_words_frequency" ->
         [raised |-> found.raised, value |-> [rows |-> found.df.rows, total |-> found.total],
          cache |-> found.cache, heap |-> found.heap]
    [] name = "compute_monthly_trend" ->
         [raised |-> ComputeMonthlyTrend(found).raised, value |-> ComputeMonthlyTrend(found).rows,
          cache |-> found.cache, heap |-> found.heap]
    [] name = "compute_fraktionen" ->
         [raised |-> ComputeFraktionen(found).raised, value |-> ComputeFraktionen(found).rows,
          cache |-> found.cache, heap |-> found.heap]
    [] name = "compute_processing_metrics" ->
         [raised |-> ComputeProcessingMetrics(found).raised, value |-> ComputeProcessingMetrics(found).metrics,
          cache |-> found.cache, heap |-> found.heap]
    [] name = "compute_fraktionen_share" ->
         [raised |-> share.raised, value |-> share.rows, cache |-> share.cache, heap |-> share.heap]
    [] name = "get_filtered_applications" ->
         [raised |-> FALSE,
          value |-> GetFilteredApplications(found, ld, q.words, q.typ_filter, q.date_filter).rows,
          cache |-> IF AnyWordToSearch(q.words) THEN found.cache ELSE ld.cache,
          heap |-> IF AnyWordToSearch(q.words) THEN found.heap ELSE ld.heap]
    [] name = "compute_date_range" ->
         [raised |-> FALSE, value |-> ComputeDateRange(ld), cache |-> ld.cache, heap |-> ld.heap]
    [] name = "get_available_typen" ->
         [raised |-> FALSE, value |-> GetAvailableTypen(ld), cache |-> ld.cache, heap |-> ld.heap]

\* the operation `name` on data.csv with query q
Answer(cache, hp, dsk, name, q, order) ==
  AnswerOf(name,
           FindWordsFrequency(cache, hp, dsk, "data.csv", q.words, q.typ_filter, q.date_filter, TRUE, order),
           LoadDataCached(cache, hp, dsk, "data.csv"),
           ComputeFraktionenShare(cache, hp, dsk, "data.csv", q.words, q.typ_filter, q.date_filter, order),
           q)

\* the query of the operations that take none
NoQuery == [words |-> <<>>, typ_filter |-> {}, date_filter |-> [from |-> None, to |-> None]]

\* data.csv is there with one of the contents, or is not there at all
InitOps ==
  /\ InitProcess
  /\ \/ \E content \in OpsContents :
          disk = [f \in Files |-> IF f = "data.csv"
                                  THEN [exists |-> TRUE, columns |-> content.columns,
                                        rows |-> content.rows, mtime |-> 1]
                                  ELSE NoFile]
     \/ disk = [f \in Files |-> NoFile]

\* the operation `name` runs with one of the queries
Operation(name, queries) ==
  /\ \E q \in queries :
      \E order \in CompletionOrders(Len(SearchTerms(q.words, TRUE))) :
      \E r \in {Answer(_data_cache, heap, disk, name, q, order)} :
          /\ call' = [name |-> name, words |-> q.words, typ_filter |-> q.typ_filter,
                      date_filter |-> q.date_filter, order |-> order,
                      file_exists |-> disk["data.csv"].exists, cache_before |-> _data_cache["data.csv"]]
          /\ result' = [raised |-> r.raised, value |-> r.value]
          /\ _data_cache' = r.cache
          /\ heap' = Collect(r.heap, Roots(r.cache, held))
          /\ UNCHANGED <<disk, held, loader, snapshot, pool>>

\* a request runs one of the operations
FindCall ==
  /\ call = NoCall
  /\ Operation("find_words_frequency", OpsQueries)

ComputeMonthlyTrendCall ==
  /\ call = NoCall
  /\ Operation("compute_monthly_trend", OpsQueries)

ComputeFraktionenCall ==
  /\ call = NoCall
  /\ Operation("compute_fraktionen", OpsQueries)

ComputeProcessingMetricsCall ==
  /\ call = NoCall
  /\ Operation("compute_processing_metrics", OpsQueries)

ShareCall ==
  /\ call = NoCall
  /\ Operation("compute_fraktionen_share", OpsQueries)

GetFilteredApplicationsCall ==
  /\ call = NoCall
  /\ Operation("get_filtered_applications", OpsQueries)

ComputeDateRangeCall ==
  /\ call = NoCall
  /\ Operation("compute_date_range", {NoQuery})

GetAvailableTypenCall ==
  /\ call = NoCall
  /\ Operation("get_available_typen", {NoQuery})


\* data.csv is deleted between two requests
FileRemoved ==
  /\ call = NoCall
  /\ disk["data.csv"].exists
  /\ disk' = [disk EXCEPT !["data.csv"] = NoFile]
  /\ UNCHANGED <<_data_cache, heap, held, call, result, loader, snapshot, pool>>

NextOps ==
  \/ FindCall
  \/ ComputeMonthlyTrendCall
  \/ ComputeFraktionenCall
  \/ ComputeProcessingMetricsCall
  \/ ShareCall
  \/ GetFilteredApplicationsCall
  \/ ComputeDateRangeCall
  \/ GetAvailableTypenCall
  \/ FileRemoved
  \/ Respond

SpecOps == InitOps /\ [][NextOps]_vars

\* the term lists without a word: empty, and made of empty and whitespace-only terms
BlankWords == SeqsUpTo({<<>>, <<" ">>}, MaxTerms)

BlankQueries ==
  [words : BlankWords, typ_filter : OpsTypFilters, date_filter : OpsDateBounds]

\* a request lists the applications without a word to search
BlankApplicationsCall ==
  /\ call = NoCall
  /\ Operation("get_filtered_applications", BlankQueries)

NextBlank ==
  \/ BlankApplicationsCall
  \/ FileRemoved
  \/ Respond

SpecBlank == InitOps /\ [][NextBlank]_vars

----------------------------------------------------------------------------
(* The expansion of query terms on its own *)

LexiconWords ==
  UNION {Range(THEME_MAP[i].phrases) \cup {THEME_MAP[i].theme} : i \in 1..Len(THEME_MAP)}

\* terms a user types: nothing, a blank, phrases and a theme name in another case, a
\* word the lexicon does not know
TypedTerms ==
  { <<>>, <<" ">>, <<"b","u","s">>, <<"M","I","E","T","E">>, <<"w","o","h","n","e","n">>, <<"x","y","z">> }

ExpandInputs == {<<w>> : w \in LexiconWords} \cup SeqsUpTo(TypedTerms, MaxTerms)

InitExpand ==
  /\ InitProcess
  /\ disk = [f \in Files |-> NoFile]

\* a request runs get_expanded_search_terms
GetExpandedSearchTermsCall ==
  /\ call = NoCall
  /\ \E words \in ExpandInputs, expand \in BOOLEAN :
       /\ call' = [name |-> "get_expanded_search_terms", words |-> words,
                   expand_with_themes |-> expand, again |-> FALSE]
       /\ result' = GetExpandedSearchTerms(words, expand)
  /\ UNCHANGED <<disk, _data_cache, heap, held, loader, snapshot, pool>>

\* the expanded terms are expanded once more
ExpandAgainCall ==
  /\ call # NoCall /\ call.name = "get_expanded_search_terms"
  /\ call.expand_with_themes /\ ~call.again
  /\ call' = [name |-> "get_expanded_search_terms", words |-> result.expanded,
              expand_with_themes |-> TRUE, again |-> TRUE]
  /\ result' = GetExpandedSearchTerms(result.expanded, TRUE)
  /\ UNCHANGED <<disk, _data_cache, heap, held, loader, snapshot, pool>>

NextExpand ==
  \/ GetExpandedSearchTermsCall
  \/ ExpandAgainCall
  \/ Respond

SpecExpand == InitExpand /\ [][NextExpand]_vars

----------------------------------------------------------------------------
(* The date slicer on its own, on tables in any order *)

\* rows with a parsed date column: two of them on the same day, one without a date
SliceRows ==
  { [name |-> "a", Gestellt_am |-> ToDatetimeCoerce(DateText(2024, 1, 10))],
    [name |-> "b", Gestellt_am |-> ToDatetimeCoerce(DateText(2024, 2, 5))],
    [name |-> "c", Gestellt_am |-> ToDatetimeCoerce(DateText(2024, 2, 5))],
    [name |-> "d", Gestellt_am |-> NaT] }

\* the tables: each row at most once, in any order; and one without the date column
SliceTables ==
  {[columns |-> {"name", "Gestellt_am"}, rows |-> rs] :
     rs \in {q \in SeqsUpTo(SliceRows, MaxSliceRows) : \A i, j \in 1..Len(q) : i # j => q[i] # q[j]}}
  \cup {[columns |-> {"name"}, rows |-> <<[name |-> "a"], [name |-> "b"]>>]}

SliceFroms == {None, DateText(2024, 1, 10), DateText(2024, 2, 1), DateText(2024, 2, 5), DateText(2024, 3, 1), NoDateText}
SliceTos == {None, DateText(2024, 1, 9), DateText(2024, 1, 10), DateText(2024, 2, 5), DateText(2024, 2, 28), NoDateText}

\* a caller hands a table and two bounds to _slice_by_date
SliceByDateCall ==
  /\ call = NoCall
  /\ \E df \in SliceTables, date_from \in SliceFroms, date_to \in SliceTos :
       /\ call' = [name |-> "_slice_by_date", df |-> df, date_from |-> date_from, date_to |-> date_to]
       /\ result' = [df |-> SliceByDate(df, date_from, date_to)]
  /\ UNCHANGED <<disk, _data_cache, heap, held, loader, snapshot, pool>>

NextSlice ==
  \/ SliceByDateCall
  \/ Respond

SpecSlice == InitExpand /\ [][NextSlice]_vars

----------------------------------------------------------------------------
(* The cache under callers that keep and change what they loaded, and a file *)
(* that is rewritten                                                         *)

\* what a rewritten file can hold (rows out of date order; dates still text)
WrittenContents ==
  { [columns |-> REQUIRED_COLUMNS, rows |-> <<RowOf("d2"), RowOf("d1")>>],
    [columns |-> REQUIRED_COLUMNS, rows |-> <<RowOf("d3"), RowOf("d1")>>] }

InitCache ==
  /\ InitProcess
  /\ \E content \in WrittenContents :
       disk = [f \in Files |-> IF f = "data.csv"
                               THEN [exists |-> TRUE, columns |-> content.columns,
                                     rows |-> content.rows, mtime |-> 1]
                               ELSE NoFile]

\* caller c runs _load_data_cached(f) and keeps the DataFrame it gets
LoadDataCachedCall(c, f) ==
  /\ call = NoCall
  /\ \E r \in {LoadDataCached(_data_cache, heap, disk, f)} :
       LET hd == IF r.raised THEN held ELSE [held EXCEPT ![c] = r.df]
           reloaded == ~r.raised /\ ~CacheHit(_data_cache, f, GetMtime(disk, f))
       IN  /\ call' = [name |-> "_load_data_cached", file |-> f, caller |-> c,
                       current_mtime |-> GetMtime(disk, f),
                       had_entry |-> _data_cache[f].present,
                       entry_mtime |-> _data_cache[f].mtime,
                       cache_before |-> _data_cache]
           /\ result' = [raised |-> r.raised,
                         df |-> IF r.raised THEN EmptyFrame ELSE r.heap[r.df].df]
           /\ _data_cache' = r.cache
           /\ held' = hd
           /\ heap' = Collect(r.heap, Roots(r.cache, hd))
           /\ snapshot' = IF reloaded
                          THEN [snapshot EXCEPT ![f] = [mtime |-> GetMtime(disk, f), df |-> r.heap[r.df].df]]
                          ELSE snapshot
  /\ UNCHANGED <<disk, loader, pool>>

\* caller c changes the DataFrame it holds: adds a computed column, overwrites a
\* column, or drops its rows in place
CallerMutates(c) ==
  /\ held[c] # 0
  /\ \E changed \in { SetColumn(heap[held[c]].df, "count", 1),
                     SetColumn(heap[held[c]].df, "document_content", <<>>),
                     [heap[held[c]].df EXCEPT !.rows = <<>>] } :
       /\ changed # heap[held[c]].df
       /\ heap' = [heap EXCEPT ![held[c]].df = changed]
  /\ UNCHANGED <<disk, _data_cache, held, call, result, loader, snapshot, pool>>

\* the file is written: new content, and a modification time that is the old one
\* (a write within the clock's resolution) or a later one
WriteFile(f) ==
  /\ call = NoCall
  /\ \E content \in WrittenContents, mtime \in 1..MaxMtime :
       /\ disk[f].exists => mtime >= disk[f].mtime
       /\ disk' = [disk EXCEPT ![f] = [exists |-> TRUE, columns |-> content.columns,
                                       rows |-> content.rows, mtime |-> mtime]]
  /\ UNCHANGED <<_data_cache, heap, held, call, result, loader, snapshot, pool>>

NextCache ==
  \/ \E c \in Callers, f \in Files : LoadDataCachedCall(c, f)
  \/ \E c \in Callers : CallerMutates(c)
  \/ WriteFile("data.csv")
  \/ Respond

SpecCache == InitCache /\ [][NextCache]_vars

----------------------------------------------------------------------------
(* find_words_frequency with every one of its settings *)

\* a request runs find_words_frequency, with or without annotate_themes
FindAnnotatedCall ==
  /\ call = NoCall
  /\ \E words \in WordLists, typ_filter \in TypFilters, date_filter \in DateBounds,
        expand \in BOOLEAN, annotate \in BOOLEAN :
    \E order \in CompletionOrders(Len(SearchTerms(words, expand))) :
      \E r \in {Annotated(FindWordsFrequency(_data_cache, heap, disk, "data.csv", words, typ_filter,
                                             date_filter, expand, order), annotate)} :
          /\ call' = [name |-> "find_words_frequency", words |-> words, typ_filter |-> typ_filter,
                      date_filter |-> date_filter, expand_with_themes |-> expand,
                      annotate_themes |-> annotate]
          /\ result' = [raised |-> r.raised, df |-> r.df, total |-> r.total]
          /\ _data_cache' = r.cache
          /\ heap' = Collect(r.heap, Roots(r.cache, held))
          /\ UNCHANGED <<disk, held, loader, snapshot, pool>>

NextAnnotated ==
  \/ FindAnnotatedCall
  \/ Respond

SpecAnnotated == InitCache /\ [][NextAnnotated]_vars

----------------------------------------------------------------------------
(* The cache when files disappear between two loads *)

\* both files are there, nothing is cached
InitReload ==
  /\ InitProcess
  /\ disk = [f \in Files |->
               [exists |-> TRUE, columns |-> REQUIRED_COLUMNS, mtime |-> 1,
                rows |-> IF f = "data.csv" THEN <<RowOf("d2"), RowOf("d1")>> ELSE <<RowOf("d3")>>]]

\* the file is deleted
RemoveFile(f) ==
  /\ call = NoCall
  /\ disk[f].exists
  /\ disk' = [disk EXCEPT ![f] = NoFile]
  /\ UNCHANGED <<_data_cache, heap, held, call, result, loader, snapshot, pool>>

NextReload ==
  \/ \E c \in Callers, f \in Files : LoadDataCachedCall(c, f)
  \/ \E f \in Files : RemoveFile(f)
  \/ Respond

SpecReload == InitReload /\ [][NextReload]_vars

----------------------------------------------------------------------------
(* _load_data_cached statement by statement, run by several request threads  *)
(* while the file is rewritten.  A statement is one step: the interpreter    *)
(* switches threads between statements; the file is replaced in one piece.   *)

Threads == {"t1", "t2"}

IdleLoader == [pc |-> "idle", current_mtime |-> NoMtime, df |-> EmptyFrame, ret |-> EmptyFrame]

InitLoaders ==
  /\ _data_cache = [f \in Files |-> NoEntry]
  /\ heap = [a \in Addr |-> Dead]
  /\ held = [c \in Callers |-> 0]
  /\ call = NoCall
  /\ result = NoResult
  /\ snapshot = [f \in Files |-> NoSnapshot]
  /\ pool = NoPool
  /\ loader = [t \in Threads |-> IdleLoader]
  /\ \E content \in WrittenContents :
       disk = [f \in Files |-> IF f = "data.csv"
                               THEN [exists |-> TRUE, columns |-> content.columns,
                                     rows |-> content.rows, mtime |-> 1]
                               ELSE NoFile]

\* the file the threads load
Loaded == "data.csv"

\* current_mtime = os.path.getmtime(file)
LoaderGetMtime(t) ==
  /\ loader[t].pc = "idle"
  /\ loader' = [loader EXCEPT ![t] = [pc |-> "check", current_mtime |-> GetMtime(disk, Loaded),
                                      df |-> EmptyFrame, ret |-> EmptyFrame]]
  /\ UNCHANGED <<disk, _data_cache, heap, held, call, result, snapshot, pool>>

\* if file in _data_cache and _data_cache[file]['mtime'] == current_mtime:
LoaderCheckCache(t) ==
  /\ loader[t].pc = "check"
  /\ loader' = [loader EXCEPT ![t].pc =
                  IF CacheHit(_data_cache, Loaded, loader[t].current_mtime) THEN "copy_cached" ELSE "read"]
  /\ UNCHANGED <<disk, _data_cache, heap, held, call, result, snapshot, pool>>

\* return _data_cache[file]['data'].copy()
LoaderCopyCached(t) ==
  /\ loader[t].pc = "copy_cached"
  /\ loader' = [loader EXCEPT ![t].pc = "done", ![t].ret = heap[_data_cache[Loaded].data].df]
  /\ UNCHANGED <<disk, _data_cache, heap, held, call, result, snapshot, pool>>

\* read_csv with the raw table put into the cache at once, to be normalized afterwards
LoaderReadCsv_StoresFirst(t) ==
  /\ loader[t].pc = "read"
  /\ disk[Loaded].exists
  /\ loader' = [loader EXCEPT ![t].pc = "to_datetime", ![t].df = ReadCsv(disk[Loaded])]
  /\ \E n \in {New(heap, ReadCsv(disk[Loaded]))} :
       LET cache == [_data_cache EXCEPT ![Loaded] =
                       [present |-> TRUE, data |-> n.addr, mtime |-> loader[t].current_mtime]]
       IN  /\ _data_cache' = cache
           /\ heap' = Collect(n.heap, Roots(cache, held))
  /\ UNCHANGED <<disk, held, call, result, snapshot, pool>>

\* df = pd.read_csv(file, usecols=REQUIRED_COLUMNS), with its fallback; raises when the file is gone
LoaderReadCsv(t) ==
  /\ loader[t].pc = "read"
  /\ loader' = [loader EXCEPT ![t] =
                  IF disk[Loaded].exists
                  THEN [@ EXCEPT !.pc = "to_datetime", !.df = ReadCsv(disk[Loaded])]
                  ELSE [@ EXCEPT !.pc = "raised"]]
  /\ UNCHANGED <<disk, _data_cache, heap, held, call, result, snapshot, pool>>

\* df["Gestellt am"] = pd.to_datetime(df["Gestellt am"], errors="coerce")
LoaderToDatetime(t) ==
  /\ loader[t].pc = "to_datetime"
  /\ loader' = [loader EXCEPT ![t] =
                  IF "Gestellt_am" \in loader[t].df.columns
                  THEN [@ EXCEPT !.pc = "sort", !.df = NormalizeDates(@)]
                  ELSE [@ EXCEPT !.pc = "store"]]
  /\ UNCHANGED <<disk, _data_cache, heap, held, call, result, snapshot, pool>>

\* df = df.sort_values("Gestellt am").reset_index(drop=True)
LoaderSort(t) ==
  /\ loader[t].pc = "sort"
  /\ loader' = [loader EXCEPT ![t].pc = "store", ![t].df.rows = SortValues(@)]
  /\ UNCHANGED <<disk, _data_cache, heap, held, call, result, snapshot, pool>>

\* _data_cache[file] = {'data': df, 'mtime': current_mtime}
LoaderStore(t) ==
  /\ loader[t].pc = "store"
  /\ \E n \in {New(heap, loader[t].df)} :
       LET cache == [_data_cache EXCEPT ![Loaded] =
                       [present |-> TRUE, data |-> n.addr, mtime |-> loader[t].current_mtime]]
       IN  /\ _data_cache' = cache
           /\ heap' = Collect(n.heap, Roots(cache, held))
  /\ loader' = [loader EXCEPT ![t].pc = "copy"]
  /\ UNCHANGED <<disk, held, call, result, snapshot, pool>>

\* return df.copy()
LoaderReturnCopy(t) ==
  /\ loader[t].pc = "copy"
  /\ loader' = [loader EXCEPT ![t].pc = "done", ![t].ret = loader[t].df]
  /\ UNCHANGED <<disk, _data_cache, heap, held, call, result, snapshot, pool>>

\* the caller has its table (or its exception): the thread takes the next request
LoaderReturns(t) ==
  /\ loader[t].pc \in {"done", "raised"}
  /\ loader' = [loader EXCEPT ![t] = IdleLoader]
  /\ UNCHANGED <<disk, _data_cache, heap, held, call, result, snapshot, pool>>

\* another process replaces the file while requests run
FileChanges ==
  /\ \E content \in WrittenContents, mtime \in 1..MaxMtime :
       /\ mtime >= disk[Loaded].mtime
       /\ [columns |-> content.columns, rows |-> content.rows, mtime |-> mtime]
            # [columns |-> disk[Loaded].columns, rows |-> disk[Loaded].rows, mtime |-> disk[Loaded].mtime]
       /\ disk' = [disk EXCEPT ![Loaded] = [exists |-> TRUE, columns |-> content.columns,
                                            rows |-> content.rows, mtime |-> mtime]]
  /\ UNCHANGED <<_data_cache, heap, held, call, result, loader, snapshot, pool>>

NextLoaders ==
  \/ \E t \in Threads :
       \/ LoaderGetMtime(t)
       \/ LoaderCheckCache(t)
       \/ LoaderCopyCached(t)
       \/ LoaderReadCsv(t)
       \/ LoaderToDatetime(t)
       \/ LoaderSort(t)
       \/ LoaderStore(t)
       \/ LoaderReturnCopy(t)
       \/ LoaderReturns(t)
  \/ FileChanges

SpecLoaders == InitLoaders /\ [][NextLoaders]_vars

----------------------------------------------------------------------------
(* The same statements while the file goes through its versions: every write *)
(* gives the file a later modification time, so that a modification time     *)
(* names one content                                                         *)

\* the content the file has while its modification time is m
VersionContent(m) ==
  IF m % 2 = 1
  THEN [columns |-> REQUIRED_COLUMNS, rows |-> <<RowOf("d2"), RowOf("d1")>>]
  ELSE [columns |-> REQUIRED_COLUMNS, rows |-> <<RowOf("d3"), RowOf("d1")>>]

\* the file with modification time m
Version(m) ==
  [exists |-> TRUE, columns |-> VersionContent(m).columns, rows |-> VersionContent(m).rows, mtime |-> m]

InitVersions ==
  /\ _data_cache = [f \in Files |-> NoEntry]
  /\ heap = [a \in Addr |-> Dead]
  /\ held = [c \in Callers |-> 0]
  /\ call = NoCall
  /\ result = NoResult
  /\ snapshot = [f \in Files |-> NoSnapshot]
  /\ pool = NoPool
  /\ loader = [t \in Threads |-> IdleLoader]
  /\ disk = [f \in Files |-> IF f = Loaded THEN Version(1) ELSE NoFile]

\* another process writes the next version of the file while requests run
FileRewritten ==
  /\ disk[Loaded].mtime < MaxMtime
  /\ disk' = [disk EXCEPT ![Loaded] = Version(disk[Loaded].mtime + 1)]
  /\ UNCHANGED <<_data_cache, heap, held, call, result, loader, snapshot, pool>>

NextVersions ==
  \/ \E t \in Threads :
       \/ LoaderGetMtime(t)
       \/ LoaderCheckCache(t)
       \/ LoaderCopyCached(t)
       \/ LoaderReadCsv(t)
       \/ LoaderToDatetime(t)
       \/ LoaderSort(t)
       \/ LoaderStore(t)
       \/ LoaderReturnCopy(t)
       \/ LoaderReturns(t)
  \/ FileRewritten

SpecVersions == InitVersions /\ [][NextVersions]_vars

----------------------------------------------------------------------------
(* The fan-out of find_words_frequency, step by step: the main thread submits *)
(* one _process_word per term to a pool of max_workers threads and collects   *)
(* the results as they complete.  Table 0 is base_df, table i the df_local of *)
(* the worker of term i.                                                      *)

\* ThreadPoolExecutor(max_workers=4)
max_workers == 4

\* one term more than the pool has workers
MaxPoolTerms == max_workers + 1

\* the worker of every term works on the one shared table
LocalCopy_Shared(i) == 0

\* df_local = base_df.copy(deep=True): the table of worker i is its own
LocalCopy(i) == i

\* the futures a worker thread is running
Running(futures) == {i \in DOMAIN futures : futures[i].pc \in {"copied", "counted"}}

\* the futures that completed, with a result or with an exception
Completed(futures) == {i \in DOMAIN futures : futures[i].pc \in {"done", "failed"}}

\* a thread takes work only while fewer than max_workers futures have ever started
WorkerIsFree_NeverReused(futures) ==
  Cardinality({i \in DOMAIN futures : futures[i].pc # "pending"}) < max_workers

\* a thread of the pool is idle: fewer than max_workers futures are running
WorkerIsFree(futures) == Cardinality(Running(futures)) < max_workers

\* the terms of the queries of the fan-out, in the order they are submitted
TermsThatReturn == <<Str_Bus, <<" ">>, Str_Fahrrad, Unbalanced, <<"n", ".", "n">>, <<"u", "s">>>>
TermsThatRaise == <<Str_Bus, Str_Fahrrad, TooManyRepeats, <<" ">>, <<"n", ".", "n">>, <<"u", "s">>>>
PoolTermLists ==
  {SubSeq(terms, 1, n) : terms \in {TermsThatReturn, TermsThatRaise}, n \in {1, 2, MaxPoolTerms}}

\* the pre-sliced tables of the fan-out
PoolTables == { [columns |-> REQUIRED_COLUMNS, rows |-> <<RowOf("d2"), RowOf("d1")>>] }

\* executor.submit(_process_word, word) for every term of search_terms
FanOut ==
  /\ pool.pc = "idle"
  /\ \E base_df \in PoolTables, search_terms \in PoolTermLists :
       pool' = [pc |-> "collect",
                search_terms |-> search_terms,
                base_df |-> base_df,
                tables |-> [a \in 0..Len(search_terms) |-> IF a = 0 THEN base_df ELSE EmptyFrame],
                futures |-> [i \in 1..Len(search_terms) |-> [pc |-> "pending", df_local |-> 0, ret |-> EmptyFrame]],
                dfs |-> <<>>]
  /\ UNCHANGED <<disk, _data_cache, heap, held, call, result, loader, snapshot>>

\* an idle thread of the pool takes the oldest waiting term and copies the base table
WorkerStart(i) ==
  /\ pool.pc \in {"collect", "shutdown"}
  /\ i \in DOMAIN pool.futures
  /\ pool.futures[i].pc = "pending"
  /\ \A j \in 1..(i - 1) : pool.futures[j].pc # "pending"
  /\ WorkerIsFree(pool.futures)
  /\ pool' = [pool EXCEPT !.tables[LocalCopy(i)] = pool.tables[0],
                          !.futures[i].pc = "copied",
                          !.futures[i].df_local = LocalCopy(i)]
  /\ UNCHANGED <<disk, _data_cache, heap, held, call, result, loader, snapshot>>

\* the worker writes the columns count and occurrences of its table, or re.compile or
\* df_local["document_content"] raises what it does not catch
WorkerCount(i) ==
  /\ pool.pc \in {"collect", "shutdown"}
  /\ i \in DOMAIN pool.futures
  /\ pool.futures[i].pc = "copied"
  /\ LET word == pool.search_terms[i]
         a == pool.futures[i].df_local
     IN  IF IsBlankWord(word) \/ ReCompileFails(word)
         THEN pool' = [pool EXCEPT !.tables[a] = CountNothing(@), !.futures[i].pc = "counted"]
         ELSE IF ReCompileOverflows(word) \/ "document_content" \notin pool.tables[a].columns
         THEN pool' = [pool EXCEPT !.futures[i].pc = "failed"]
         ELSE pool' = [pool EXCEPT !.tables[a] = CountMatches(@, word), !.futures[i].pc = "counted"]
  /\ UNCHANGED <<disk, _data_cache, heap, held, call, result, loader, snapshot>>

\* return df_local[df_local["count"] > 0]
WorkerReturn(i) ==
  /\ pool.pc \in {"collect", "shutdown"}
  /\ i \in DOMAIN pool.futures
  /\ pool.futures[i].pc = "counted"
  /\ pool' = [pool EXCEPT !.futures[i].pc = "done",
                          !.futures[i].ret = Matched(pool.tables[pool.futures[i].df_local])]
  /\ UNCHANGED <<disk, _data_cache, heap, held, call, result, loader, snapshot>>

\* for future in as_completed(futures): dfs.append(future.result()); the loop ends
\* with the last future
CollectResult(i) ==
  /\ pool.pc = "collect"
  /\ i \in DOMAIN pool.futures
  /\ pool.futures[i].pc = "done"
  /\ \A k \in 1..Len(pool.dfs) : pool.dfs[k].future # i
  /\ pool' = [pool EXCEPT !.dfs = Append(@, [future |-> i, df |-> pool.futures[i].ret]),
                          !.pc = IF Len(pool.dfs) + 1 = Len(pool.search_terms) THEN "shutdown" ELSE "collect"]
  /\ UNCHANGED <<disk, _data_cache, heap, held, call, result, loader, snapshot>>

\* future.result() raises what the worker raised: the loop is left
Reraise(i) ==
  /\ pool.pc = "collect"
  /\ i \in DOMAIN pool.futures
  /\ pool.futures[i].pc = "failed"
  /\ pool' = [pool EXCEPT !.pc = "shutdown"]
  /\ UNCHANGED <<disk, _data_cache, heap, held, call, result, loader, snapshot>>

\* the end of the `with` block: shutdown(wait=True) returns when no future is waiting
\* or running; then find_words_frequency goes on, or the exception leaves it
Shutdown ==
  /\ pool.pc = "shutdown"
  /\ Completed(pool.futures) = DOMAIN pool.futures
  /\ pool' = [pool EXCEPT !.pc = IF Len(pool.dfs) = Len(pool.search_terms) THEN "returned" ELSE "raised"]
  /\ UNCHANGED <<disk, _data_cache, heap, held, call, result, loader, snapshot>>

\* the call is over
PoolDone ==
  /\ pool.pc \in {"returned", "raised"}
  /\ pool' = NoPool
  /\ UNCHANGED <<disk, _data_cache, heap, held, call, result, loader, snapshot>>

WorkerStep(i) == WorkerStart(i) \/ WorkerCount(i) \/ WorkerReturn(i)
MainStep == (\E i \in 1..MaxPoolTerms : CollectResult(i) \/ Reraise(i)) \/ Shutdown

NextPool ==
  \/ FanOut
  \/ \E i \in 1..MaxPoolTerms :
       \/ WorkerStart(i)
       \/ WorkerCount(i)
       \/ WorkerReturn(i)
       \/ CollectResult(i)
       \/ Reraise(i)
  \/ Shutdown
  \/ PoolDone

InitPool ==
  /\ InitProcess
  /\ disk = [f \in Files |-> NoFile]

SpecPool == InitPool /\ [][NextPool]_vars

\* every thread of the pool and the main thread get to run
SpecPoolFair ==
  /\ SpecPool
  /\ \A i \in 1..MaxPoolTerms : WF_vars(WorkerStep(i))
  /\ WF_vars(MainStep)

----------------------------------------------------------------------------
(* What the claims say, stated over the calls of Spec *)

\* the table a call on data.csv searches: the file as _load_data_cached builds it
LoadedTable == NormalizeAndSort(ReadCsv(disk["data.csv"]))

\* the table after the date slice and the type filter of a call
FilteredTable(typ_filter, date_filter) ==
  LET sliced == IF DateFilterActive(date_filter)
                THEN SliceByDate(LoadedTable, date_filter.from, date_filter.to) ELSE LoadedTable
  IN  IF typ_filter # {} THEN TypIsIn(sliced, typ_filter) ELSE sliced

\* the text of the document of row r holds the pattern, ignoring case; a document
\* without text holds nothing
DocumentContains(r, pattern) ==
  r.document_content # NaN /\ StrContains(r.document_content, pattern)

ValidPattern(word) == ~IsBlankWord(word) /\ ~ReCompileFails(word) /\ ~ReCompileOverflows(word)

NamesOf(rows) == [i \in 1..Len(rows) |-> rows[i].name]

AfterFind == call.name = "find_words_frequency" /\ ~result.raised
AfterOccurrences == call.name = "find_word_occurrences" /\ ~result.raised

\* the rows find_words_frequency returns for these words, in the state as it is
FindRows(words, typ_filter, date_filter, expand) ==
  Range(FindWordsFrequency(_data_cache, heap, disk, "data.csv", words, typ_filter, date_filter,
                           expand, [i \in 1..Len(SearchTerms(words, expand)) |-> i]).df.rows)

(* C1: for a valid non-blank pattern, find_word_occurrences and the one-term         *)
(* find_words_frequency return exactly the rows whose document text holds the        *)
(* pattern (case ignored), each once with count 1, and the hit count is their number *)
C1_BinaryMatchPerDocument ==
  /\ (AfterOccurrences /\ ValidPattern(call.word)) =>
       LET hits(r) == DocumentContains(r, call.word)
       IN  /\ NamesOf(result.df.rows) = NamesOf(SelectSeq(LoadedTable.rows, hits))
           /\ \A i \in 1..Len(result.df.rows) : result.df.rows[i].count = 1
           /\ result.total = Len(SelectSeq(LoadedTable.rows, hits))
  /\ (AfterFind /\ Len(call.words) = 1 /\ ~call.expand_with_themes /\ ValidPattern(call.words[1])) =>
       LET hits(r) == DocumentContains(r, call.words[1])
           table == FilteredTable(call.typ_filter, call.date_filter)
       IN  /\ {r.name : r \in Range(result.df.rows)} = {r.name : r \in Range(SelectSeq(table.rows, hits))}
           /\ \A i \in 1..Len(result.df.rows) : result.df.rows[i].count = 1

\* C1 where every document of the file has text
C1_HoldsWhenEveryDocumentHasText ==
  (\A i \in 1..Len(disk["data.csv"].rows) : disk["data.csv"].rows[i].document_content # NaN)
    => C1_BinaryMatchPerDocument

(* C2 as claimed: for ALL terms A and B the rows returned for [A, B] are the union   *)
(* of the rows returned for [A] and for [B], filters and expansion being the same    *)
C2_UnionForAllTerms ==
  (AfterFind /\ Len(call.words) = 2) =>
     Range(result.df.rows) =
       FindRows(<<call.words[1]>>, call.typ_filter, call.date_filter, call.expand_with_themes)
       \cup FindRows(<<call.words[2]>>, call.typ_filter, call.date_filter, call.expand_with_themes)

(* C2 amended: the union property holds for all terms A and B that are not the empty *)
(* string (an empty term alone is a match-all query, beside another term it matches  *)
(* nothing)                                                                          *)
C2_UnionForNonEmptyTerms ==
  (/\ AfterFind /\ Len(call.words) = 2
   /\ call.words[1] # <<>> /\ call.words[2] # <<>>) =>
     Range(result.df.rows) =
       FindRows(<<call.words[1]>>, call.typ_filter, call.date_filter, call.expand_with_themes)
       \cup FindRows(<<call.words[2]>>, call.typ_filter, call.date_filter, call.expand_with_themes)

\* a two-term query whose terms each match something the other does not
C2_Witness ==
  /\ AfterFind /\ Len(call.words) = 2
  /\ ~IsBlankWord(call.words[1]) /\ ~IsBlankWord(call.words[2])
  /\ LET a == FindRows(<<call.words[1]>>, call.typ_filter, call.date_filter, call.expand_with_themes)
         b == FindRows(<<call.words[2]>>, call.typ_filter, call.date_filter, call.expand_with_themes)
     IN  a \ b # {} /\ b \ a # {}

\* the rows term w matches in the sliced table of the call, as its worker returns them
WorkerRows(w) ==
  LET base_df == IF DateFilterActive(call.date_filter)
                 THEN SliceByDate(LoadedTable, call.date_filter.from, call.date_filter.to)
                 ELSE LoadedTable
  IN  Range(ProcessWord(base_df, w).rows)

PerTermBranch ==
  AfterFind /\ ~NoWordsLeft(SearchTerms(call.words, call.expand_with_themes))

(* C3: with a non-blank term list, the result holds every row some term matches      *)
(* (of the wanted type), each exactly once, and totalCount is the number of these    *)
(* rows, not the sum of the hit counts of the terms                                  *)
C3_UnionReturnedOnce ==
  PerTermBranch =>
    LET terms == Range(SearchTerms(call.words, call.expand_with_themes))
        union == UNION {WorkerRows(w) : w \in terms}
        wanted == {r \in union : call.typ_filter = {} \/ r.Typ \in call.typ_filter}
    IN  /\ Range(result.df.rows) = wanted
        /\ \A i, j \in 1..Len(result.df.rows) : i # j => result.df.rows[i] # result.df.rows[j]
        /\ result.total = Cardinality(wanted)

\* a row matched by two different terms of the query, so that the hit counts of the
\* terms sum to more than the rows returned
C3_Witness ==
  /\ PerTermBranch
  /\ \E w1, w2 \in Range(SearchTerms(call.words, call.expand_with_themes)) :
       w1 # w2 /\ WorkerRows(w1) \cap WorkerRows(w2) \cap Range(result.df.rows) # {}

\* empty or only whitespace, as the claim reads "blank"
AllTermsBlank(search_terms) == \A i \in 1..Len(search_terms) : IsBlankWord(search_terms[i])

(* C4 as claimed: when the expanded term list is empty or all its terms are blank    *)
(* (empty or whitespace-only), every row of the type/date-filtered table is returned *)
(* with count 1 and totalCount is the number of these rows                           *)
C4_BlankTermsMatchAll ==
  (AfterFind /\ AllTermsBlank(SearchTerms(call.words, call.expand_with_themes))) =>
     LET table == FilteredTable(call.typ_filter, call.date_filter)
     IN  /\ NamesOf(result.df.rows) = NamesOf(table.rows)
         /\ \A i \in 1..Len(result.df.rows) : result.df.rows[i].count = 1
         /\ result.total = Len(table.rows)

\* what the code does: match-all for term lists that are empty or hold only empty strings
C4_EmptyTermsMatchAll ==
  (AfterFind /\ NoWordsLeft(SearchTerms(call.words, call.expand_with_themes))) =>
     LET table == FilteredTable(call.typ_filter, call.date_filter)
     IN  /\ NamesOf(result.df.rows) = NamesOf(table.rows)
         /\ \A i \in 1..Len(result.df.rows) : result.df.rows[i].count = 1
         /\ result.total = Len(table.rows)

\* a term re.compile does not accept
InvalidPattern(word) == ~IsBlankWord(word) /\ (ReCompileFails(word) \/ ReCompileOverflows(word))

\* the terms of the call's query, expanded as the call asked
CallTerms == Range(SearchTerms(call.words, call.expand_with_themes))

(* C13 as claimed: a term that is no valid regular expression never aborts a query:  *)
(* find_word_occurrences returns no rows and count 0 for it, and in                  *)
(* find_words_frequency it adds no rows while the rows of the other terms are        *)
(* returned                                                                          *)
C13_InvalidPatternNeverAborts ==
  /\ (call.name = "find_word_occurrences" /\ InvalidPattern(call.word)) =>
        ~result.raised /\ result.df.rows = <<>> /\ result.total = 0
  /\ (call.name = "find_words_frequency" /\ \E w \in CallTerms : InvalidPattern(w)) =>
        /\ ~result.raised
        /\ LET others == UNION {WorkerRows(w) : w \in {v \in CallTerms : ~InvalidPattern(v)}}
           IN  Range(result.df.rows) = {r \in others : call.typ_filter = {} \/ r.Typ \in call.typ_filter}

\* C13 for the terms re.compile rejects with re.error
C13_HoldsForReError ==
  /\ (call.name = "find_word_occurrences" /\ InvalidPattern(call.word) /\ ~ReCompileOverflows(call.word)) =>
        ~result.raised /\ result.df.rows = <<>> /\ result.total = 0
  /\ (/\ call.name = "find_words_frequency"
      /\ \E w \in CallTerms : InvalidPattern(w)
      /\ \A w \in CallTerms : ~ReCompileOverflows(w)) =>
        /\ ~result.raised
        /\ LET others == UNION {WorkerRows(w) : w \in {v \in CallTerms : ~InvalidPattern(v)}}
           IN  Range(result.df.rows) = {r \in others : call.typ_filter = {} \/ r.Typ \in call.typ_filter}

----------------------------------------------------------------------------
(* What the claims say about the expansion, stated over the calls of SpecExpand *)

AfterExpand == call.name = "get_expanded_search_terms" /\ call.expand_with_themes

\* two strings that differ at most in the case of their letters
SameIgnoringCase(a, b) ==
  Len(a) = Len(b) /\ \A k \in 1..Len(a) : CharLower(a[k]) = CharLower(b[k])

ThemeWords(i) == Range(THEME_MAP[i].phrases) \cup {THEME_MAP[i].theme}

\* the themes a term names: by the theme name or by one of its phrases
ThemesNamedBy(w) == {i \in 1..Len(THEME_MAP) : \E x \in ThemeWords(i) : SameIgnoringCase(w, x)}

(* C5: the expansion is a list without repetition that holds every non-empty input   *)
(* term and, for every theme an input term names (by theme name or phrase, case       *)
(* ignored), all phrases of the theme and its name; it holds nothing else             *)
C5_ExpansionIsTermsPlusNamedThemes ==
  AfterExpand =>
    LET input == {w \in Range(call.words) : w # <<>>}
        out == Range(result.expanded)
        named == UNION {ThemesNamedBy(w) : w \in input}
    IN  /\ input \subseteq out
        /\ \A i \in named : ThemeWords(i) \subseteq out
        /\ \A x \in out : x \in input \/ \E i \in named : x \in ThemeWords(i)
        /\ \A m, n \in 1..Len(result.expanded) : m # n => result.expanded[m] # result.expanded[n]
        /\ result.original = call.words

\* a query with a phrase typed in another case next to a word the lexicon does not know
C5_Witness ==
  /\ AfterExpand /\ ~call.again
  /\ \E w1, w2 \in Range(call.words) :
       /\ w1 \notin LexiconWords /\ ThemesNamedBy(w1) # {}
       /\ w2 # <<>> /\ ThemesNamedBy(w2) = {}
  /\ Cardinality(Range(result.expanded)) > 2

(* C6: expanding an expansion changes nothing, and expanding a theme name or one      *)
(* phrase of a theme gives all phrases of that theme and the theme name               *)
C6_ExpansionIdempotent ==
  /\ (AfterExpand /\ call.again) => Range(result.expanded) = Range(call.words)
  /\ (AfterExpand /\ ~call.again /\ Len(call.words) = 1 /\ call.words[1] \in LexiconWords) =>
       \E i \in 1..Len(THEME_MAP) :
         /\ call.words[1] \in ThemeWords(i)
         /\ Range(result.expanded) = ThemeWords(i)

\* the expansion of a phrase of a theme has been expanded again
C6_Witness ==
  /\ AfterExpand /\ call.again
  /\ \E i \in 1..Len(THEME_MAP) : ThemeWords(i) \subseteq Range(call.words)
  /\ Range(result.expanded) = Range(call.words)

----------------------------------------------------------------------------
(* What the claims say about the cache, stated over the calls of SpecCache *)

AfterLoad == call.name = "_load_data_cached" /\ ~result.raised

\* the call found no entry, or an entry with another modification time than the file's
SawChangedMtime == ~call.had_entry \/ call.entry_mtime # call.current_mtime

\* the table _load_data_cached builds from file f as it is on disk
TableOnDisk(f) == NormalizeAndSort(ReadCsv(disk[f]))

(* C7: while the modification time of a source does not change, every call of        *)
(* _load_data_cached returns the table the first call returned, whatever callers did *)
(* to the tables they got; the cached table is never altered                         *)
C7_CacheIsolation ==
  /\ AfterLoad => result.df = snapshot[call.file].df
  /\ \A f \in Files : _data_cache[f].present => heap[_data_cache[f].data].df = snapshot[f].df

\* a call served from the cache while a caller holds a table of the same file that it
\* has changed
C7_Witness ==
  /\ AfterLoad /\ ~SawChangedMtime
  /\ \E c \in Callers :
       /\ held[c] # 0 /\ c # call.caller
       /\ heap[held[c]].df # snapshot[call.file].df
       /\ "count" \in heap[held[c]].df.columns
  /\ Len(result.df.rows) > 0

(* C8: a call that sees another modification time than the cached one reloads: the  *)
(* entry then holds the table built from the file and the new modification time, and *)
(* the call returns that table; no call returns a table cached under a modification  *)
(* time the file no longer has                                                        *)
C8_CacheInvalidation ==
  /\ (AfterLoad /\ SawChangedMtime) =>
        /\ _data_cache[call.file].present
        /\ _data_cache[call.file].mtime = call.current_mtime
        /\ heap[_data_cache[call.file].data].df = TableOnDisk(call.file)
        /\ result.df = TableOnDisk(call.file)
  /\ AfterLoad =>
        /\ _data_cache[call.file].mtime = disk[call.file].mtime
        /\ snapshot[call.file].mtime = disk[call.file].mtime

\* a call that found an entry of an earlier modification time and returned other rows
\* than that entry held
C8_Witness ==
  /\ AfterLoad /\ call.had_entry /\ call.entry_mtime # call.current_mtime
  /\ \E c \in Callers :
       /\ held[c] # 0 /\ c # call.caller
       /\ NamesOf(heap[held[c]].df.rows) # NamesOf(result.df.rows)
       /\ Len(heap[held[c]].df.rows) > 0
  /\ Len(result.df.rows) > 0

----------------------------------------------------------------------------
(* What the claims say about concurrent loads, stated over SpecLoaders *)

\* the complete tables: what _load_data_cached builds from one content of the file
WholeTables ==
  {NormalizeAndSort(ReadCsv([exists |-> TRUE, columns |-> c.columns, rows |-> c.rows, mtime |-> 1])) :
     c \in WrittenContents}

(* C9: under every interleaving of concurrent loads and file replacements, a reader  *)
(* gets a complete table of one content of the file, parsed and sorted; it gets the  *)
(* table it built itself or the one in the cache at the moment it copies; the cache  *)
(* never holds a table that is half built                                            *)
C9_ReadersGetWholeSnapshots ==
  /\ \A t \in Threads : loader[t].pc = "done" => loader[t].ret \in WholeTables
  /\ \A t \in Threads : loader[t].pc = "copy" => loader[t].df \in WholeTables
  /\ _data_cache[Loaded].present => heap[_data_cache[Loaded].data].df \in WholeTables

\* a reader returns the cached table of one content while another thread is half way
\* through building the table of another content
C9_Witness ==
  \E t, u \in Threads :
    /\ loader[t].pc = "done" /\ loader[t].current_mtime = _data_cache[Loaded].mtime
    /\ loader[u].pc \in {"to_datetime", "sort"}
    /\ NamesOf(loader[u].df.rows) # NamesOf(SortValues(loader[u].df.rows))
    /\ Range(NamesOf(loader[u].df.rows)) # Range(NamesOf(loader[t].ret.rows))
    /\ loader[t].ret # EmptyFrame

----------------------------------------------------------------------------
(* What the claims say about the shares, stated over the calls of SpecShare *)

AfterShare == call.name = "compute_fraktionen_share" /\ ~result.raised

(* C10 as claimed: every row of compute_fraktionen_share has 0 <= share <= 1 (share  *)
(* is count / total), and no submitter with total = 0 or count = 0 is in the result  *)
C10_ShareBetweenZeroAndOne ==
  AfterShare =>
    \A i \in 1..Len(result.rows) :
      /\ result.rows[i].count > 0
      /\ result.rows[i].total > 0
      /\ result.rows[i].count <= result.rows[i].total

\* the same, for the calls whose date filter has no "from" bound or has both bounds
C10_HoldsWithoutLoneFromBound ==
  AfterShare =>
    ((Given(call.date_filter.from) => Given(call.date_filter.to)) => C10_ShareBetweenZeroAndOne)

----------------------------------------------------------------------------
(* What the claims say about the aggregations, stated over the calls of SpecOps *)

\* the query of the call
CallQuery == [words |-> call.words, typ_filter |-> call.typ_filter, date_filter |-> call.date_filter]

\* the rows find_words_frequency returns for the query of the call
MatchedRows ==
  FindWordsFrequency(_data_cache, heap, disk, "data.csv", call.words, call.typ_filter, call.date_filter,
                     TRUE, call.order).df.rows

Answered(name) == call.name = name /\ ~result.raised

\* the number of the places of a sequence where P holds
HowMany(rows, P(_)) == Cardinality({i \in 1..Len(rows) : P(rows[i])})

(* C11: compute_processing_metrics returns openCount + closedCount = totalCount,     *)
(* where totalCount is the number of matched rows, closedCount the number of them    *)
(* with a completion date and openCount the number of them without one               *)
C11_OpenPlusClosedIsTotal ==
  Answered("compute_processing_metrics") =>
    LET rows == MatchedRows
        has_date(r) == Parses(r.Erledigt_am)
        has_none(r) == ~Parses(r.Erledigt_am)
    IN  /\ result.value.openCount + result.value.closedCount = result.value.totalCount
        /\ result.value.totalCount = Len(rows)
        /\ result.value.closedCount = HowMany(rows, has_date)
        /\ result.value.openCount = HowMany(rows, has_none)

\* matched rows of both kinds, one of the closed ones without a submission date
C11_Witness ==
  /\ Answered("compute_processing_metrics")
  /\ result.value.openCount > 0
  /\ result.value.closedCount > 0
  /\ LET rows == MatchedRows
     IN  \E i \in 1..Len(rows) : Parses(rows[i].Erledigt_am) /\ IsNaT(rows[i].Gestellt_am)

(* C12 as claimed: in the result of compute_processing_metrics avgDays is null if    *)
(* and only if closedCount = 0                                                       *)
C12_AvgDaysNullIffNoneClosed ==
  Answered("compute_processing_metrics") =>
    (result.value.avgDays = NoMean <=> result.value.closedCount = 0)

\* what the code does: avgDays is null iff no closed row has a submission date
C12_AvgDaysNullIffNoDuration ==
  Answered("compute_processing_metrics") =>
    LET rows == MatchedRows
        timed(r) == Parses(r.Erledigt_am) /\ ~IsNaT(r.Gestellt_am)
    IN  (result.value.avgDays = NoMean <=> HowMany(rows, timed) = 0)

\* the operations that answer from what find_words_frequency returns
FinderOperations ==
  {"find_words_frequency", "compute_monthly_trend", "compute_fraktionen", "compute_processing_metrics"}

(* C14 as claimed: when data.csv cannot be opened, every operation raises to its     *)
(* caller instead of answering with an empty or null result, and the cache is left   *)
(* without a new entry                                                               *)
C14_MissingFileSurfaces ==
  (call # NoCall /\ ~call.file_exists) =>
    /\ result.raised
    /\ _data_cache["data.csv"] = call.cache_before

\* what the code does: the finders, the three aggregations over them and the share
\* raise, and no operation stores an entry
C14_MissingFileSurfacesFromFinders ==
  (call # NoCall /\ ~call.file_exists) =>
    /\ call.name \in FinderOperations \cup {"compute_fraktionen_share"} => result.raised
    /\ _data_cache["data.csv"] = call.cache_before

\* a bound that is given and is no date
BadBound(b) == b # None /\ ~Parses(b)

\* the date filter of the call without its bounds that are no dates
ParseableBounds ==
  [from |-> IF BadBound(call.date_filter.from) THEN None ELSE call.date_filter.from,
   to |-> IF BadBound(call.date_filter.to) THEN None ELSE call.date_filter.to]

\* the operation of the call again, with only the bounds that are dates
AnswerWithParseableBounds ==
  Answer(_data_cache, heap, disk, call.name, [CallQuery EXCEPT !.date_filter = ParseableBounds], call.order)

HasBadBound == BadBound(call.date_filter.from) \/ BadBound(call.date_filter.to)

(* C15 as claimed: in find, monthlyTrend, bySubmitter, submitterShare and            *)
(* processingMetrics a from or to bound that is no date is ignored: the operation    *)
(* answers what it answers without that bound, and does not raise because of it      *)
C15_BadBoundIgnored ==
  (call # NoCall /\ call.name \in FinderOperations \cup {"compute_fraktionen_share"} /\ HasBadBound) =>
    /\ result.raised = AnswerWithParseableBounds.raised
    /\ ~result.raised => result.value = AnswerWithParseableBounds.value

\* what the code does: this holds of the operations that filter through _slice_by_date
C15_BadBoundIgnoredBySlicer ==
  (call # NoCall /\ call.name \in FinderOperations /\ HasBadBound) =>
    /\ result.raised = AnswerWithParseableBounds.raised
    /\ ~result.raised => result.value = AnswerWithParseableBounds.value

\* the columns the aggregations read besides the text and the submission date
AggregatedColumns == {"Typ", "Gestellt_von", "Erledigt_am", "Zustaendiges_Referat"}

Aggregations ==
  {"compute_monthly_trend", "compute_fraktionen", "compute_fraktionen_share", "compute_processing_metrics"}

\* an aggregation ran on a readable file that lacks one of the columns, with bounds
\* that are dates
AggregatedWithoutColumn(col) ==
  /\ call # NoCall
  /\ call.name \in Aggregations
  /\ call.file_exists
  /\ ~HasBadBound
  /\ disk["data.csv"].columns = REQUIRED_COLUMNS \ {col}

(* C16 as claimed: monthlyTrend, bySubmitter, submitterShare and processingMetrics   *)
(* raise no exception when the file lacks the type, submitter, completion date or    *)
(* department column, with or without a type filter                                  *)
C16_MissingColumnNeverRaises ==
  \A col \in AggregatedColumns : AggregatedWithoutColumn(col) => ~result.raised

\* what the code does: a missing submitter or department column is tolerated
C16_MissingSubmitterOrDepartmentTolerated ==
  \A col \in {"Gestellt_von", "Zustaendiges_Referat"} : AggregatedWithoutColumn(col) => ~result.raised

\* the entries of a row's submitter field: its parts between commas, trimmed
Entries(r) ==
  LET parts == StrSplit(AsTypeStr(r.Gestellt_von), ",")
  IN  [k \in 1..Len(parts) |-> StrStrip(parts[k])]

\* the entries `name` among the rows that satisfy P, as (row, place) pairs
EntriesOf(rows, name, P(_)) ==
  UNION { {<<i, k>> : k \in {k \in 1..Len(Entries(rows[i])) : Entries(rows[i])[k] = name}}
          : i \in {i \in 1..Len(rows) : P(rows[i])} }

AnyRow(r) == TRUE

(* C17: compute_fraktionen splits the submitter field of every matched row on commas *)
(* and trims the parts; every entry adds 1 to the count of its name, so a row with   *)
(* "A, B" adds 1 to A and 1 to B; the names come sorted by count, largest first, and *)
(* each carries the breakdown of its count by type                                   *)
C17_SubmitterSplit ==
  Answered("compute_fraktionen") =>
    LET agg == result.value
        rows == MatchedRows
        names == IF "Gestellt_von" \in disk["data.csv"].columns
                 THEN UNION {{Entries(rows[i])[k] : k \in 1..Len(Entries(rows[i]))} : i \in 1..Len(rows)}
                 ELSE {}
    IN  /\ {agg[i].name : i \in 1..Len(agg)} = names
        /\ \A i, j \in 1..Len(agg) : i < j => agg[i].name # agg[j].name /\ agg[i].count >= agg[j].count
        /\ \A i \in 1..Len(agg) :
             LET types == {rows[p[1]].Typ : p \in EntriesOf(rows, agg[i].name, AnyRow)}
             IN  /\ agg[i].count = Cardinality(EntriesOf(rows, agg[i].name, AnyRow))
                 /\ DOMAIN agg[i].typ_breakdown = types
                 /\ \A t \in types :
                      LET of_type(r) == r.Typ = t
                      IN  agg[i].typ_breakdown[t] = Cardinality(EntriesOf(rows, agg[i].name, of_type))

\* a matched row with two submitters counted for both, next to a row with one of them
C17_Witness ==
  /\ Answered("compute_fraktionen")
  /\ Len(result.value) = 2
  /\ result.value[1].name = Str_CSU /\ result.value[1].count = 3
  /\ result.value[2].name = <<"S", "P", "D">> /\ result.value[2].count = 1
  /\ LET rows == MatchedRows IN \E i \in 1..Len(rows) : rows[i].Gestellt_von = Str_SPD_CSU

\* the submission date of the row lies in the month mo = <<year, month>>
InMonth(r, mo) ==
  /\ r.Gestellt_am.k = "ts"
  /\ LET before == DaysBeforeYear(mo[1]) + DaysBeforeMonth(mo[1], mo[2])
     IN  before < Day(r.Gestellt_am) /\ Day(r.Gestellt_am) <= before + DaysInMonth(mo[1], mo[2])

(* C19: compute_monthly_trend leaves out the matched rows whose submission date is   *)
(* missing or no date, puts the others in the bucket of their year and month, and    *)
(* returns for every month with a row its count and the breakdown of the count by    *)
(* type, the months ascending and each of them once                                  *)
C19_MonthlyBuckets ==
  Answered("compute_monthly_trend") =>
    LET trend == result.value
        rows == MatchedRows
    IN  /\ \A i \in 1..Len(trend) :
             LET in_month(r) == InMonth(r, trend[i].month)
                 types == {rows[k].Typ : k \in {k \in 1..Len(rows) : in_month(rows[k])}}
             IN  /\ trend[i].month[2] \in 1..12
                 /\ trend[i].count = HowMany(rows, in_month)
                 /\ trend[i].count > 0
                 /\ DOMAIN trend[i].typ_breakdown = types
                 /\ \A t \in types :
                      LET of_type(r) == in_month(r) /\ r.Typ = t
                      IN  trend[i].typ_breakdown[t] = HowMany(rows, of_type)
        /\ \A i, j \in 1..Len(trend) :
             i < j => \/ trend[i].month[1] < trend[j].month[1]
                      \/ trend[i].month[1] = trend[j].month[1] /\ trend[i].month[2] < trend[j].month[2]
        /\ \A k \in 1..Len(rows) :
             rows[k].Gestellt_am.k = "ts" => \E i \in 1..Len(trend) : InMonth(rows[k], trend[i].month)

\* January and February of 2024 with a row each, a third matched row without a date
C19_Witness ==
  /\ Answered("compute_monthly_trend")
  /\ Len(result.value) = 2
  /\ result.value[1].month = <<2024, 1>>
  /\ result.value[2].month = <<2024, 2>>
  /\ LET rows == MatchedRows IN \E k \in 1..Len(rows) : rows[k].Gestellt_am.k # "ts"

\* what find_words_frequency returns for the query of the call without its type filter
UnfilteredRows ==
  FindWordsFrequency(_data_cache, heap, disk, "data.csv", call.words, {}, call.date_filter,
                     TRUE, call.order).df.rows

(* C20: with a type filter find_words_frequency returns exactly the otherwise        *)
(* matching rows whose type is one of the given strings, in the match-all branch and *)
(* in the per-term branch alike; without a filter, or with an empty one, no row is   *)
(* removed                                                                           *)
C20_TypFilter ==
  Answered("find_words_frequency") =>
    LET given(r) == call.typ_filter = {} \/ r.Typ \in call.typ_filter
    IN  /\ result.value.rows = SelectSeq(UnfilteredRows, given)
        /\ result.value.total = Len(result.value.rows)

\* a term matched rows of two types, and the filter kept those of one
C20_Witness ==
  /\ Answered("find_words_frequency")
  /\ call.words = <<Str_Bus>>
  /\ call.typ_filter = {"Antrag"}
  /\ Len(result.value.rows) = 1
  /\ Len(UnfilteredRows) = 2

----------------------------------------------------------------------------
(* What the claims say about the date slicer, stated over the calls of SpecSlice *)

Sliced == call.name = "_slice_by_date" /\ "Gestellt_am" \in call.df.columns

\* the bound is given and is a date
Usable(bound) == bound # None /\ Parses(bound)

\* the day number of a bound that is a date
BoundDay(bound) == DaysBeforeYear(bound.v[1]) + DaysBeforeMonth(bound.v[1], bound.v[2]) + bound.v[3]

\* the table is in ascending order of the dates, the rows without a date last
SortedNullsLast(rows) ==
  \A i, j \in 1..Len(rows) :
    i < j => \/ rows[j].Gestellt_am.k = "NaT"
             \/ /\ rows[i].Gestellt_am.k = "ts" /\ rows[j].Gestellt_am.k = "ts"
                /\ rows[i].Gestellt_am.v[1] <= rows[j].Gestellt_am.v[1]

\* the date of the row is on or after the bound, a missing date counting as after every day
NotBefore(r, bound) == r.Gestellt_am.k = "NaT" \/ r.Gestellt_am.v[1] >= BoundDay(bound)
After(r, bound) == r.Gestellt_am.k = "NaT" \/ r.Gestellt_am.v[1] > BoundDay(bound)

\* the first index of the table whose row satisfies P, the table end when there is none
FirstIndex(rows, P(_)) ==
  IF \E i \in 1..Len(rows) : P(rows[i])
  THEN CHOOSE i \in 1..Len(rows) : P(rows[i]) /\ \A j \in 1..(i - 1) : ~P(rows[j])
  ELSE Len(rows) + 1

\* the window the claim describes, of a table in order
Window(rows, date_from, date_to) ==
  LET on_or_after(r) == NotBefore(r, date_from)
      after(r) == After(r, date_to)
      first == IF Usable(date_from) THEN FirstIndex(rows, on_or_after) ELSE 1
      end == IF Usable(date_to) THEN FirstIndex(rows, after) ELSE Len(rows) + 1
  IN  [i \in 1..(IF end > first THEN end - first ELSE 0) |-> rows[first + i - 1]]

\* the rows of the table the two bounds admit
Admitted(rows, date_from, date_to) ==
  {r \in {rows[i] : i \in 1..Len(rows)} :
     /\ Usable(date_from) => NotBefore(r, date_from)
     /\ Usable(date_to) => ~After(r, date_to)}

(* C18: on a table sorted by date with the missing dates last, _slice_by_date        *)
(* returns the contiguous window from the first index whose date is >= from up to    *)
(* the index before the first one whose date is > to, an absent bound standing for   *)
(* the table end on its side; a table that is not sorted is sorted first, so that    *)
(* the result holds the same rows as for the sorted table                            *)
C18_SliceIsWindow ==
  Sliced =>
    /\ SortedNullsLast(call.df.rows) =>
         result.df.rows = Window(call.df.rows, call.date_from, call.date_to)
    /\ SortedNullsLast(result.df.rows)
    /\ {result.df.rows[i] : i \in 1..Len(result.df.rows)}
         = (IF Usable(call.date_from) /\ Usable(call.date_to) /\ BoundDay(call.date_from) > BoundDay(call.date_to)
            THEN {} ELSE Admitted(call.df.rows, call.date_from, call.date_to))
    /\ \A i, j \in 1..Len(result.df.rows) : i # j => result.df.rows[i] # result.df.rows[j]

\* a table out of order, sliced on both sides to the two rows of one day
C18_Witness ==
  /\ Sliced
  /\ ~SortedNullsLast(call.df.rows)
  /\ Len(call.df.rows) = 3
  /\ Usable(call.date_from) /\ Usable(call.date_to)
  /\ Len(result.df.rows) = 2
  /\ result.df.rows[1].Gestellt_am = result.df.rows[2].Gestellt_am

----------------------------------------------------------------------------
(* What the claims say about the finder as a function of the file and its arguments *)

\* a process that has loaded nothing yet
FreshCache == [f \in Files |-> NoEntry]
FreshHeap == [a \in Addr |-> Dead]

\* the call again in a fresh process, its workers completing in the given order
FindAgain(order) ==
  FindWordsFrequency(FreshCache, FreshHeap, disk, "data.csv", call.words, call.typ_filter,
                     call.date_filter, call.expand_with_themes, order)

CallOrders == CompletionOrders(Len(SearchTerms(call.words, call.expand_with_themes)))

(* C21 as claimed: find_words_frequency is a function of the table and its           *)
(* parameters: whatever calls came before and in whatever order the workers of the   *)
(* pool complete, the same parameters on the same table return the same rows and     *)
(* the same totalCount                                                               *)
C21_SameResultWhateverTheOrder ==
  (AfterFind /\ ~result.raised) =>
    \A order \in CallOrders :
      /\ ~FindAgain(order).raised
      /\ FindAgain(order).df.rows = result.df.rows
      /\ FindAgain(order).total = result.total

\* what the code does: the same documents and the same totalCount, in an order of rows
\* that follows the order of completion
C21_SameDocumentsWhateverTheOrder ==
  (AfterFind /\ ~result.raised) =>
    \A order \in CallOrders :
      /\ ~FindAgain(order).raised
      /\ Range(FindAgain(order).df.rows) = Range(result.df.rows)
      /\ Len(FindAgain(order).df.rows) = Len(result.df.rows)
      /\ FindAgain(order).total = result.total

----------------------------------------------------------------------------
(* What the claims say about failed reloads, stated over the calls of SpecReload *)

(* C27: _load_data_cached writes a cache entry only once the file has been read and  *)
(* its dates normalized; when the reload fails because the file cannot be read, the  *)
(* call raises and the whole cache is as before the call: the entry of the path      *)
(* keeps its table and modification time, and so do the entries of the other paths   *)
C27_FailedReloadLeavesCache ==
  call.name = "_load_data_cached" =>
    /\ result.raised => _data_cache = call.cache_before
    /\ _data_cache # call.cache_before =>
         /\ ~result.raised
         /\ disk[call.file].exists
         /\ _data_cache[call.file].present
         /\ _data_cache[call.file].mtime = disk[call.file].mtime
         /\ heap[_data_cache[call.file].data].df = TableOnDisk(call.file)
         /\ \A f \in Files \ {call.file} : _data_cache[f] = call.cache_before[f]

\* a reload of a path that has an entry fails, while the other path has an entry too
C27_Witness ==
  /\ call.name = "_load_data_cached"
  /\ result.raised
  /\ \A f \in Files : call.cache_before[f].present
  /\ \A f \in Files : heap[_data_cache[f].data].live

----------------------------------------------------------------------------
(* What the claims say about the cache entry and the versions of the file, stated *)
(* over SpecVersions                                                              *)

\* the table _load_data_cached builds from the version with modification time m
VersionTable(m) == NormalizeAndSort(ReadCsv(Version(m)))

(* C26 as claimed: the table stored in the cache under modification time m is the    *)
(* table built from the content the file had with modification time m, also when the *)
(* file is rewritten between the read of the modification time and the read of the   *)
(* content                                                                           *)
C26_EntryIsTheVersionOfItsMtime ==
  _data_cache[Loaded].present =>
    heap[_data_cache[Loaded].data].df = VersionTable(_data_cache[Loaded].mtime)

\* what the code does: the table of the entry is the whole table of the version named
\* by its modification time or of a later one
C26_EntryIsNoOlderThanItsMtime ==
  _data_cache[Loaded].present =>
    /\ _data_cache[Loaded].mtime \in 1..disk[Loaded].mtime
    /\ \E m \in _data_cache[Loaded].mtime..disk[Loaded].mtime :
         heap[_data_cache[Loaded].data].df = VersionTable(m)

----------------------------------------------------------------------------
(* What the claims say about the counts of compute_fraktionen_share, stated over *)
(* the calls of SpecShare                                                        *)

\* the submitter field of the row lists the name
Lists(r, name) == \E k \in 1..Len(Entries(r)) : Entries(r)[k] = name

\* no submitter field of the file lists a name twice
EveryNameListedOnce ==
  \A i \in 1..Len(disk["data.csv"].rows) :
    \A k, l \in 1..Len(Entries(disk["data.csv"].rows[i])) :
      k # l => Entries(disk["data.csv"].rows[i])[k] # Entries(disk["data.csv"].rows[i])[l]

\* the rows find_words_frequency returns for the words and filters of the call
ShareMatchedRows ==
  FindWordsFrequency(_data_cache, heap, disk, "data.csv", call.words, call.typ_filter, call.date_filter,
                     TRUE, [i \in 1..Len(SearchTerms(call.words, TRUE)) |-> i]).df.rows

\* the rows the totals are counted on
ShareAllRows == TotalsTable(LoadedTable, call.typ_filter, call.date_filter).rows

\* count and total are numbers of documents
CountsAreDocuments ==
  LET matched == ShareMatchedRows
      all == ShareAllRows
  IN  \A i \in 1..Len(result.rows) :
        LET lists(r) == Lists(r, result.rows[i].name)
        IN  /\ result.rows[i].count = HowMany(matched, lists)
            /\ result.rows[i].total = HowMany(all, lists)

(* C24 as claimed: in the result of compute_fraktionen_share the count of a          *)
(* submitter is the number of matched documents that list the submitter and its      *)
(* total the number of documents of the filtered dataset that list it: no document   *)
(* adds more than 1 to a count or a total, and count <= total                        *)
C24_CountsDocumentsOnce ==
  AfterShare =>
    /\ CountsAreDocuments
    /\ \A i \in 1..Len(result.rows) : result.rows[i].count <= result.rows[i].total

\* what the code does: count and total are numbers of list entries, which are the
\* numbers of documents when no field lists a name twice
C24_HoldsWhenEveryNameListedOnce ==
  (AfterShare /\ EveryNameListedOnce) => CountsAreDocuments

----------------------------------------------------------------------------
(* What the claims say about the total of find_words_frequency, stated over the *)
(* calls of SpecAnnotated                                                       *)

(* C25: whatever the terms, the type filter, the date filter and the expand and      *)
(* annotate settings, the totalCount find_words_frequency returns is the number of   *)
(* rows it returns, in the match-all branch and in the per-term branch, and every    *)
(* row it returns has count 1                                                        *)
C25_TotalIsNumberOfRows ==
  AfterFind =>
    /\ result.total = Len(result.df.rows)
    /\ \A i \in 1..Len(result.df.rows) : result.df.rows[i].count = 1

\* a per-term call with annotation that returns some rows of the file and not others
C25_Witness ==
  /\ AfterFind
  /\ call.annotate_themes
  /\ ~NoWordsLeft(SearchTerms(call.words, call.expand_with_themes))
  /\ "themes_detected" \in result.df.columns
  /\ result.total = 1
  /\ Len(disk["data.csv"].rows) = 2

----------------------------------------------------------------------------
(* What the claims say about byReferat, stated over the calls of SpecOps *)

RECURSIVE BreakdownTotal(_, _)
\* the sum of the counts of a per-type breakdown over the types S
BreakdownTotal(breakdown, S) ==
  IF S = {} THEN 0
  ELSE LET t == CHOOSE x \in S : TRUE
       IN  breakdown[t] + BreakdownTotal(breakdown, S \ {t})

RECURSIVE SumOfCounts(_)
SumOfCounts(entries) ==
  IF entries = <<>> THEN 0 ELSE entries[1].count + SumOfCounts(Tail(entries))

\* byReferat is in descending order of the mean duration, a mean of nothing last
SortedByMeanDescending(entries) ==
  \A i, j \in 1..Len(entries) : i < j => ~MeanGreater(entries[j].avgDays, entries[i].avgDays)

(* C29 as claimed: byReferat is sorted by mean duration in descending order, the     *)
(* count of each department is the number of closed matched rows of that department  *)
(* and the sum of its per-type breakdown, and the counts add up to at most           *)
(* closedCount                                                                       *)
C29_DepartmentCountIsClosedRows ==
  Answered("compute_processing_metrics") =>
    LET rows == MatchedRows
        by == result.value.byReferat
    IN  /\ SortedByMeanDescending(by)
        /\ \A i \in 1..Len(by) :
             LET closed_here(r) == Parses(r.Erledigt_am) /\ r.Zustaendiges_Referat = by[i].referat
             IN  /\ by[i].count = HowMany(rows, closed_here)
                 /\ by[i].count = BreakdownTotal(by[i].typ_breakdown, DOMAIN by[i].typ_breakdown)
        /\ SumOfCounts(by) <= result.value.closedCount

\* what the code does: the count of a department is the number of its closed rows
\* that have a submission date too, the breakdown counts all its closed rows
C29_DepartmentCountIsTimedRows ==
  Answered("compute_processing_metrics") =>
    LET rows == MatchedRows
        by == result.value.byReferat
    IN  /\ SortedByMeanDescending(by)
        /\ \A i \in 1..Len(by) :
             LET closed_here(r) == Parses(r.Erledigt_am) /\ r.Zustaendiges_Referat = by[i].referat
                 timed_here(r) == closed_here(r) /\ ~IsNaT(r.Gestellt_am)
             IN  /\ by[i].count = HowMany(rows, timed_here)
                 /\ BreakdownTotal(by[i].typ_breakdown, DOMAIN by[i].typ_breakdown) = HowMany(rows, closed_here)
        /\ SumOfCounts(by) <= result.value.closedCount

----------------------------------------------------------------------------
(* What the claims say about a query without a word, stated over the calls of *)
(* SpecBlank                                                                  *)

\* find_words_frequency with the arguments of the call
FoundForCall ==
  FindWordsFrequency(_data_cache, heap, disk, "data.csv", call.words, call.typ_filter, call.date_filter,
                     TRUE, call.order)

\* rows in descending order of the submission date, the rows without one last
NewestFirstNullsLast(rows) ==
  \A i, j \in 1..Len(rows) : i < j =>
    /\ IsNaT(rows[i].Gestellt_am) => IsNaT(rows[j].Gestellt_am)
    /\ ~IsNaT(rows[j].Gestellt_am) => ~SortsBefore(rows[i].Gestellt_am, rows[j].Gestellt_am)

(* C30 as claimed: for every term list whose terms are all empty or whitespace-only, *)
(* get_filtered_applications returns the same set of documents as                    *)
(* find_words_frequency called with the same arguments, in descending order of the   *)
(* submission date with the rows without a date last                                 *)
C30_BlankQueryAgrees ==
  (/\ Answered("get_filtered_applications")
   /\ ~AnyWordToSearch(call.words)
   /\ call.file_exists) =>
    LET found == FoundForCall
    IN  ~found.raised =>
          /\ Range(NamesOf(result.value)) = Range(NamesOf(found.df.rows))
          /\ "Gestellt_am" \in found.df.columns => NewestFirstNullsLast(result.value)

\* what the code does: the two agree when every term is the empty string; a term of
\* whitespace makes find_words_frequency search for it and find nothing
C30_EmptyQueryAgrees ==
  (/\ Answered("get_filtered_applications")
   /\ ~AnyWordToSearch(call.words)
   /\ call.file_exists) =>
    LET found == FoundForCall
    IN  ~found.raised =>
          /\ NoWordsLeft(call.words) => Range(NamesOf(result.value)) = Range(NamesOf(found.df.rows))
          /\ ~NoWordsLeft(call.words) => found.df.rows = <<>>
          /\ "Gestellt_am" \in found.df.columns => NewestFirstNullsLast(result.value)

----------------------------------------------------------------------------
(* What the claims say about the two passes of compute_fraktionen_share, stated *)
(* over the calls of SpecShare                                                  *)

\* the documents the totals pass counts, and the documents the matching pass searches
TotalsPopulation == Range(NamesOf(TotalsTable(LoadedTable, call.typ_filter, call.date_filter).rows))
SearchedPopulation == Range(NamesOf(FilteredTable(call.typ_filter, call.date_filter).rows))
MatchedPopulation == {r.name : r \in FindRows(call.words, call.typ_filter, call.date_filter, TRUE)}

(* C28 as claimed: the two passes of compute_fraktionen_share work on the same       *)
(* population: the rows the boolean date filter of the totals pass keeps are the     *)
(* rows _slice_by_date keeps, rows without a date included, and every matched row is *)
(* in the population of the totals                                                   *)
C28_SamePopulation ==
  AfterShare =>
    /\ TotalsPopulation = SearchedPopulation
    /\ MatchedPopulation \subseteq TotalsPopulation

\* what the code does: the two agree unless the filter has a "from" bound alone; then
\* the slice keeps the rows without a date, which the comparison of the totals drops
C28_SamePopulationWithoutLoneFromBound ==
  AfterShare =>
    /\ MatchedPopulation \subseteq SearchedPopulation
    /\ TotalsPopulation \subseteq SearchedPopulation
    /\ \A r \in Range(FilteredTable(call.typ_filter, call.date_filter).rows) :
         r.name \notin TotalsPopulation =>
           /\ IsNaT(r.Gestellt_am)
           /\ Given(call.date_filter.from) /\ ~Given(call.date_filter.to)

----------------------------------------------------------------------------
(* What the claims say about the fan-out, stated over the steps of SpecPool *)

\* the query is in its fan-out or has just left it
InFanOut == pool.pc # "idle"

(* C22: during the fan-out the shared base table is never written: every worker      *)
(* writes count and occurrences to a table of its own, and the result of every       *)
(* worker, under every interleaving of up to four workers, is the result of running  *)
(* its term alone on the base table                                                  *)
C22_WorkersShareNothing ==
  InFanOut =>
    /\ pool.tables[0] = pool.base_df
    /\ \A i \in DOMAIN pool.futures :
         /\ pool.futures[i].pc # "pending" =>
              /\ pool.futures[i].df_local # 0
              /\ \A j \in DOMAIN pool.futures \ {i} : pool.futures[j].df_local # pool.futures[i].df_local
         /\ pool.futures[i].pc = "done" => pool.futures[i].ret = ProcessWord(pool.base_df, pool.search_terms[i])
    /\ \A k \in 1..Len(pool.dfs) :
         pool.dfs[k].df = ProcessWord(pool.base_df, pool.search_terms[pool.dfs[k].future])
    /\ Cardinality(Running(pool.futures)) <= max_workers

\* four workers at once, two of them with their columns written and different hits,
\* and a worker that returned rows while they run
C22_Witness ==
  /\ InFanOut
  /\ Cardinality(Running(pool.futures)) = max_workers
  /\ \E i, j \in DOMAIN pool.futures :
       /\ pool.futures[i].pc = "counted"
       /\ pool.futures[j].pc = "counted"
       /\ pool.tables[pool.futures[i].df_local] # pool.tables[pool.futures[j].df_local]
  /\ \E i \in DOMAIN pool.futures : pool.futures[i].pc = "done" /\ pool.futures[i].ret.rows # <<>>

\* how often the result of future i was collected
TimesCollected(i) == Cardinality({k \in 1..Len(pool.dfs) : pool.dfs[k].future = i})

\* the call has left the `with` block
PoolFinished == pool.pc \in {"returned", "raised"}

====
